---- MODULE Spec2Model ----
(***************************************************************************)
(* Frame-by-frame tricycle fleet simulator: the entities of                *)
(* generator/entities.py (Passenger, Tricycle, Map, Terminal) and the tick *)
(* loop of generator/scenarios/real.py (Simulator.run.process_frame).      *)
(*                                                                         *)
(* Geometry: the road network is abstracted to one road; a Point is its   *)
(* coordinate along the road in millimetres, so util.haversine and         *)
(* util.get_euclidean_distance are both the absolute difference and        *)
(* util.interpolate_points is exact integer arithmetic. Distances and      *)
(* radii given in metres in the source are compared after scaling by 1000, *)
(* and a speed is carried as speed*1000 (5.556 m per tick = 5556).         *)
(***************************************************************************)
EXTENDS Integers, Sequences, FiniteSets, TLC

\* ------------------------------------------------------------- constants
MS_PER_FRAME == 1000
DETECTION_RADIUS_METERS == 100
DROPOFF_RADIUS_METERS == 2
PICKUP_RADIUS_METERS == 2
\* minimum enqueue timeout of Passenger.checkEnqueueTimeout
MIN_TIMEOUT_FRAMES == 60
\* threshold of the same-location predicate (Map.isAtLocation default)
AT_LOCATION_THRESHOLD_METERS == 2
\* trikeConfig["speed"] forced by isRealistic, times 1000
REALISTIC_SPEED_MILLI == 5556

\* --------------------------------------------------------------- bounds
\* number of frames a run processes (maxTime = MaxTicks * clock step)
MaxTicks == 6
\* largest trikeCapacity a configuration may choose
MaxCapacity == 2
\* number of calls a process makes to the route cache layer
MaxOps == 2

None == 0

\* ids, in registry (creation) order
TrikeIds == {1, 2}
PassengerIds == {1, 2, 3}
TerminalIds == {1, 2}

\* places of the road (millimetres): the two terminals, a hotspot one metre
\* from the first terminal, a hotspot one realistic step away from it
Place == [T1 |-> 0, NearT1 |-> 1000, Mid |-> 5556, T2 |-> 11112]
Points == {Place.T1, Place.NearT1, Place.Mid, Place.T2}

TerminalLocation(t) == IF t = 1 THEN Place.T1 ELSE Place.T2

VARIABLES
    config,          \* the Simulator's parameters and the router of this run
    passengers,      \* passenger id -> Passenger object
    tricycles,       \* trike id -> Tricycle object
    terminals,       \* terminal id -> Terminal object
    map_passengers,  \* Map.passengers (registry, in insertion order)
    cur_time,        \* cur_time[0]
    last_active,     \* last_active[0]
    pc,              \* position of process_frame
    idx,             \* the trike or terminal the current loop is at
    dist_cache,      \* algos.dist_cache: key <<p1, p2>> -> the router's answer
    cache,           \* scenarios.real.cache: the valid hotspots (<<>> for None)
    observed,        \* the last call made to the cache layer and its outcome
    ops              \* number of calls made to the cache layer

\* the state of the process, which outlives a run
process == <<dist_cache, cache, observed, ops>>

vars == <<config, passengers, tricycles, terminals, map_passengers,
          cur_time, last_active, pc, idx, process>>

\* ------------------------------------------------------------- helpers
Abs(x) == IF x < 0 THEN -x ELSE x
Min(a, b) == IF a <= b THEN a ELSE b
Last(s) == s[Len(s)]
SeqToSet(s) == {s[i] : i \in 1..Len(s)}
RemoveAll(s, x) == SelectSeq(s, LAMBDA y : y # x)

\* util.haversine, in millimetres
haversine(a, b) == Abs(a - b)
\* util.get_euclidean_distance, in coordinate units
get_euclidean_distance(a, b) == Abs(a - b)

\* The objects the methods read and mutate, passed and returned as one value.
World == [P |-> passengers, T |-> tricycles, Tm |-> terminals, M |-> map_passengers]

Event(type, data, time) == [type |-> type, data |-> data, time |-> time]

\* ------------------------------------------------------------- router
\* util.find_path_between_points_in_osrm: the external routing service. It
\* answers NoRoute, or a polyline from p1 to p2. The run's road network
\* (config.router) fixes the answer for every destination: "ok" is the
\* polyline <<p1, p2>>, "short" a polyline of the start point alone.
find_path_between_points_in_osrm(router, p1, p2) ==
    IF p2 \in router.bad
    THEN IF router.kind = "none"
         THEN [noroute |-> TRUE, path |-> <<>>]
         ELSE [noroute |-> FALSE, path |-> <<p1>>]
    ELSE [noroute |-> FALSE, path |-> <<p1, p2>>]

\* util.find_nearest_point_in_osrm_path: the point of the road nearest to x
\* (the lower one of two equally near).
find_nearest_point_in_osrm_path(x) ==
    CHOOSE p \in Points :
        \A q \in Points : Abs(p - x) < Abs(q - x) \/ (Abs(p - x) = Abs(q - x) /\ p <= q)

\* scenarios.util.get_valid_points
get_valid_points(points) ==
    [i \in 1..Len(points) |-> find_nearest_point_in_osrm_path(points[i])]

\* Path.getDistance
RECURSIVE getDistance(_)
getDistance(path) ==
    IF Len(path) < 2 THEN 0
    ELSE get_euclidean_distance(path[1], path[2]) + getDistance(Tail(path))

\* -------------------------------------------------------------- algos
\* math.inf
inf == -1
LessThan(a, b) == a # inf /\ (b = inf \/ a < b)

\* the router's answer kept for None: no route
NoPath == [noroute |-> TRUE, path |-> <<>>]

\* the truth value of dist_cache.get(key): the key is there and its value is
\* neither None nor an empty list
Truthy(dc, key) == key \in DOMAIN dc /\ ~dc[key].noroute /\ dc[key].path # <<>>

\* dist_cache[key] = value
Store(dc, key, value) ==
    [k \in DOMAIN dc \cup {key} |-> IF k = key THEN value ELSE dc[k]]

\* get_distance that looks up the forward key only
get_distance_ForwardOnly(dc, router, p1, p2) ==
    IF Truthy(dc, <<p1, p2>>) THEN [dc |-> dc, ret |-> dc[<<p1, p2>>], calls |-> 0]
    ELSE LET found == find_path_between_points_in_osrm(router, p1, p2)
             value == IF found.noroute THEN NoPath ELSE found
         IN [dc |-> Store(dc, <<p1, p2>>, value), ret |-> value, calls |-> 1]

\* Returns [dc, ret, calls]: the cache after the call, the path returned
\* (NoPath for None) and the number of calls made to the router.
get_distance(dc, router, p1, p2) ==
    IF Truthy(dc, <<p1, p2>>) THEN [dc |-> dc, ret |-> dc[<<p1, p2>>], calls |-> 0]
    ELSE IF Truthy(dc, <<p2, p1>>) THEN [dc |-> dc, ret |-> dc[<<p2, p1>>], calls |-> 0]
    ELSE LET found == find_path_between_points_in_osrm(router, p1, p2)
             value == IF found.noroute THEN NoPath ELSE found
         IN [dc |-> Store(dc, <<p1, p2>>, value), ret |-> value, calls |-> 1]

\* itertools.permutations of the sequence s, in its order of enumeration
RECURSIVE permutations(_)
RECURSIVE permutationsFrom(_, _)
permutationsFrom(s, i) ==
    IF i > Len(s) THEN <<>>
    ELSE LET rest == SubSeq(s, 1, i - 1) \o SubSeq(s, i + 1, Len(s))
             tails == permutations(rest)
         IN [k \in 1..Len(tails) |-> <<s[i]>> \o tails[k]] \o permutationsFrom(s, i + 1)

permutations(s) == IF s = <<>> THEN << <<>> >> ELSE permutationsFrom(s, 1)

\* The inner loop of sort_path_brute over one order, a sequence of
\* [index, dest]. Returns [dc, calls, total_distance].
RECURSIVE chainLoop(_, _, _, _, _, _)
chainLoop(dc, router, cur_point, order, total_distance, calls) ==
    IF order = <<>> THEN [dc |-> dc, calls |-> calls, total_distance |-> total_distance]
    ELSE
      LET dst_point == Head(order).dest
          got == get_distance(dc, router, cur_point, dst_point)
      IN IF got.ret.noroute
         THEN [dc |-> got.dc, calls |-> calls + got.calls, total_distance |-> inf]
         ELSE chainLoop(got.dc, router, dst_point, Tail(order),
                        total_distance + getDistance(got.ret.path \o <<dst_point>>),
                        calls + got.calls)

\* The loop of sort_path_brute over the permutations.
\* Returns [dc, calls, start_index].
RECURSIVE bruteLoop(_, _, _, _, _, _, _, _)
bruteLoop(dc, router, src, orders, i, least_distance, start_index, calls) ==
    IF i > Len(orders) THEN [dc |-> dc, calls |-> calls, start_index |-> start_index]
    ELSE
      LET c == chainLoop(dc, router, src, orders[i], 0, 0)
      IN IF LessThan(c.total_distance, least_distance)
         THEN bruteLoop(c.dc, router, src, orders, i + 1, c.total_distance,
                        orders[i][1].index, calls + c.calls)
         ELSE bruteLoop(c.dc, router, src, orders, i + 1, least_distance,
                        start_index, calls + c.calls)

\* dests: the destinations of the passengers, in the order of the list.
\* Returns [dc, calls, start_index], the index counted from 0.
sort_path_brute(dc, router, src, dests) ==
    LET with_index == [i \in 1..Len(dests) |-> [index |-> i - 1, dest |-> dests[i]]]
    IN bruteLoop(dc, router, src, permutations(with_index), 1, inf, 0, 0)

\* scenarios.real.smart_scheduler. Returns [dc, calls, start_index].
smart_scheduler(dc, router, src, dests) == sort_path_brute(dc, router, src, dests)

\* ---------------------------------------------------------- Passenger
NewPassenger(src, dest, createTime) ==
    [src |-> src, dest |-> dest, createTime |-> createTime, deathTime |-> -1,
     status |-> "WAITING", pickupTime |-> -1, claimed_by |-> None,
     enqueueTime |-> -1,
     events |-> <<Event("APPEAR", None, createTime)>>]

\* onEnqueue that does not record the enqueue time
onEnqueue_NoEnqueueTime(W, p, trike_id, time) ==
    [W EXCEPT !.P[p] = [@ EXCEPT !.status = "ENQUEUED",
                                 !.claimed_by = trike_id,
                                 !.events = Append(@, Event("ENQUEUE", trike_id, time))]]

onEnqueue(W, p, trike_id, time) ==
    [W EXCEPT !.P[p] = [@ EXCEPT !.status = "ENQUEUED",
                                 !.claimed_by = trike_id,
                                 !.enqueueTime = time,
                                 !.events = Append(@, Event("ENQUEUE", trike_id, time))]]

\* onLoad that does not record the pickup time
onLoad_NoPickupTime(W, p, trike_id, time) ==
    [W EXCEPT !.P[p] = [@ EXCEPT !.events = Append(@, Event("LOAD", trike_id, time)),
                                 !.status = "ONBOARD",
                                 !.claimed_by = trike_id]]

onLoad(W, p, trike_id, time) ==
    [W EXCEPT !.P[p] = [@ EXCEPT !.events = Append(@, Event("LOAD", trike_id, time)),
                                 !.status = "ONBOARD",
                                 !.pickupTime = time,
                                 !.claimed_by = trike_id]]

\* onDropoff that records the event and leaves the status alone
onDropoff_NoCompletion(W, p, time) ==
    [W EXCEPT !.P[p] = [@ EXCEPT !.events = Append(@, Event("DROP-OFF", W.P[p].claimed_by, time)),
                                 !.deathTime = time]]

onDropoff(W, p, time) ==
    [W EXCEPT !.P[p] = [@ EXCEPT !.events = Append(@, Event("DROP-OFF", W.P[p].claimed_by, time)),
                                 !.status = "COMPLETED",
                                 !.deathTime = time]]

\* onReset that keeps the claim
onReset_KeepsClaim(W, p, time) ==
    [W EXCEPT !.P[p] = [@ EXCEPT !.status = "WAITING",
                                 !.events = Append(@, Event("RESET", W.P[p].claimed_by, time))]]

onReset(W, p, time) ==
    [W EXCEPT !.P[p] = [@ EXCEPT !.status = "WAITING",
                                 !.claimed_by = None,
                                 !.events = Append(@, Event("RESET", W.P[p].claimed_by, time))]]

\* (current_time - enqueueTime) > max(2*DETECTION/(speed*MS_PER_FRAME), 60),
\* with speed1000 = speed*1000 > 0, so x > a/b is x*b > a
checkEnqueueTimeout(pass, current_time, speed1000) ==
    IF pass.status = "ENQUEUED" /\ pass.enqueueTime # -1
    THEN /\ (current_time - pass.enqueueTime) * speed1000 > DETECTION_RADIUS_METERS * 2
         /\ (current_time - pass.enqueueTime) > MIN_TIMEOUT_FRAMES
    ELSE FALSE

\* ------------------------------------------------------------------ Map
\* a removal that leaves the registry as it is
removePassenger_KeepsAll(W, p) == W

removePassenger(W, p) == [W EXCEPT !.M = RemoveAll(@, p)]

getNearbyPassengers(W, point, radiusMeters) ==
    SelectSeq(W.M, LAMBDA p : haversine(point, W.P[p].src) <= radiusMeters * 1000)

isAtLocation(point1, point2, thresholdMeters) ==
    haversine(point1, point2) <= thresholdMeters * 1000

\* Map.tricycles holds every trike, in creation order: the first trike whose
\* id is claimed_by is the trike itself.
RECURSIVE checkEnqueuedPassengersFrom(_, _, _)
checkEnqueuedPassengersFrom(W, i, current_time) ==
    IF i > Len(W.M) THEN W
    ELSE LET p == W.M[i]
             claimer == W.P[p].claimed_by
             W1 == IF /\ claimer # None
                      /\ claimer \in DOMAIN W.T
                      /\ checkEnqueueTimeout(W.P[p], current_time, W.T[claimer].speed1000)
                   THEN onReset(W, p, current_time)
                   ELSE W
         IN checkEnqueuedPassengersFrom(W1, i + 1, current_time)

checkEnqueuedPassengers(W, current_time) ==
    checkEnqueuedPassengersFrom(W, 1, current_time)

\* ---------------------------------------------------------------- Cycle
\* min over (distance, index) pairs: the nearest point, the lowest index on a tie
getNearestPointIndex(cycle, other) ==
    CHOOSE i \in 1..Len(cycle) :
        \A j \in 1..Len(cycle) :
            \/ get_euclidean_distance(other, cycle[i]) < get_euclidean_distance(other, cycle[j])
            \/ /\ get_euclidean_distance(other, cycle[i]) = get_euclidean_distance(other, cycle[j])
               /\ i <= j

\* indices are 1-based here: (curIndex + 1) % len is (i % len) + 1
getNextPoint(cycle, other) ==
    cycle[(getNearestPointIndex(cycle, other) % Len(cycle)) + 1]

\* ------------------------------------------------------------- Tricycle
NewTricycle(capacity, speed1000, roamPath, isRoaming, startX, scheduler, useMeters) ==
    [capacity |-> capacity, speed1000 |-> speed1000, active |-> TRUE,
     useMeters |-> useMeters, roamPath |-> roamPath, scheduler |-> scheduler,
     isRoaming |-> isRoaming, x |-> startX,
     passengers |-> <<>>, enqueued_passengers |-> {},
     status |-> IF isRoaming THEN "ROAMING" ELSE "IDLE",
     totalDistance |-> 0, totalProductiveDistance |-> 0,
     totalDistanceM |-> 0, totalProductiveDistanceM |-> 0,
     waitingTime |-> 0,
     to_go |-> <<>>,
     path |-> <<startX>>,
     events |-> <<Event("APPEAR", None, 0)>>,
     createTime |-> 0, deathTime |-> -1]

curPoint(W, v) == Last(W.T[v].path)

hasPassenger(W, v) == Len(W.T[v].passengers) > 0

AddTrikeEvent(W, v, e) == [W EXCEPT !.T[v].events = Append(@, e)]

\* moveTrike that keeps the point it has reached in to_go
moveTrike_KeepsReachedPoint(W, v, current_time) ==
    LET t == W.T[v]
        cur == Last(t.path)
    IN
    IF t.status = "TERMINAL" THEN [W |-> W, ret |-> 0]
    ELSE IF t.to_go = <<>> THEN [W |-> W, ret |-> 0]
    ELSE
      LET nxt == Head(t.to_go)
          distRequiredM == haversine(cur, nxt)
          distRequired == IF t.useMeters THEN distRequiredM
                          ELSE get_euclidean_distance(cur, nxt)
          distTravelled == Min(distRequired, t.speed1000)
          distTravelledM == IF t.useMeters THEN Min(distRequiredM, t.speed1000)
                            ELSE IF distRequired = 0 THEN 0
                            ELSE (distRequiredM * distTravelled) \div distRequired
      IN
      IF distRequired = 0
      THEN [W |-> W, ret |-> 0]
      ELSE
        LET reached == distTravelled >= distRequired   \* progress >= 1
            newPoint == cur + ((nxt - cur) * distTravelled) \div distRequired
            productive == Len(t.passengers) > 0
            evs == IF t.events # <<>> /\ Last(t.events).type = "MOVE"
                   THEN [t.events EXCEPT ![Len(t.events)].data = @ + 1]
                   ELSE Append(t.events, Event("MOVE", 1, current_time))
            t1 == [t EXCEPT
                     !.path = Append(@, newPoint),
                     !.totalDistance = @ + distTravelled,
                     !.totalDistanceM = @ + distTravelledM,
                     !.totalProductiveDistance = IF productive THEN @ + distTravelled ELSE @,
                     !.totalProductiveDistanceM = IF productive THEN @ + distTravelledM ELSE @,
                     !.events = evs,
                     !.to_go = IF reached THEN Tail(@) ELSE @]
        IN [W |-> [W EXCEPT !.T[v] = t1],
            ret |-> IF t.useMeters THEN 1 ELSE MS_PER_FRAME]

\* moveTrike that counts every move as productive
moveTrike_AlwaysProductive(W, v, current_time) ==
    LET t == W.T[v]
        cur == Last(t.path)
    IN
    IF t.status = "TERMINAL" THEN [W |-> W, ret |-> 0]
    ELSE IF t.to_go = <<>> THEN [W |-> W, ret |-> 0]
    ELSE
      LET nxt == Head(t.to_go)
          distRequiredM == haversine(cur, nxt)
          distRequired == IF t.useMeters THEN distRequiredM
                          ELSE get_euclidean_distance(cur, nxt)
          distTravelled == Min(distRequired, t.speed1000)
          distTravelledM == IF t.useMeters THEN Min(distRequiredM, t.speed1000)
                            ELSE IF distRequired = 0 THEN 0
                            ELSE (distRequiredM * distTravelled) \div distRequired
      IN
      IF distRequired = 0
      THEN [W |-> [W EXCEPT !.T[v].to_go = Tail(@)], ret |-> 0]
      ELSE
        LET reached == distTravelled >= distRequired   \* progress >= 1
            newPoint == cur + ((nxt - cur) * distTravelled) \div distRequired
            productive == TRUE
            evs == IF t.events # <<>> /\ Last(t.events).type = "MOVE"
                   THEN [t.events EXCEPT ![Len(t.events)].data = @ + 1]
                   ELSE Append(t.events, Event("MOVE", 1, current_time))
            t1 == [t EXCEPT
                     !.path = Append(@, newPoint),
                     !.totalDistance = @ + distTravelled,
                     !.totalDistanceM = @ + distTravelledM,
                     !.totalProductiveDistance = IF productive THEN @ + distTravelled ELSE @,
                     !.totalProductiveDistanceM = IF productive THEN @ + distTravelledM ELSE @,
                     !.events = evs,
                     !.to_go = IF reached THEN Tail(@) ELSE @]
        IN [W |-> [W EXCEPT !.T[v] = t1],
            ret |-> IF t.useMeters THEN 1 ELSE MS_PER_FRAME]

\* moveTrike that stamps the coalesced MOVE event with the current time
moveTrike_RestampsMove(W, v, current_time) ==
    LET t == W.T[v]
        cur == Last(t.path)
    IN
    IF t.status = "TERMINAL" THEN [W |-> W, ret |-> 0]
    ELSE IF t.to_go = <<>> THEN [W |-> W, ret |-> 0]
    ELSE
      LET nxt == Head(t.to_go)
          distRequiredM == haversine(cur, nxt)
          distRequired == IF t.useMeters THEN distRequiredM
                          ELSE get_euclidean_distance(cur, nxt)
          distTravelled == Min(distRequired, t.speed1000)
          distTravelledM == IF t.useMeters THEN Min(distRequiredM, t.speed1000)
                            ELSE IF distRequired = 0 THEN 0
                            ELSE (distRequiredM * distTravelled) \div distRequired
      IN
      IF distRequired = 0
      THEN [W |-> [W EXCEPT !.T[v].to_go = Tail(@)], ret |-> 0]
      ELSE
        LET reached == distTravelled >= distRequired   \* progress >= 1
            newPoint == cur + ((nxt - cur) * distTravelled) \div distRequired
            productive == Len(t.passengers) > 0
            evs == IF t.events # <<>> /\ Last(t.events).type = "MOVE"
                   THEN [t.events EXCEPT ![Len(t.events)].data = @ + 1,
                                       ![Len(t.events)].time = current_time]
                   ELSE Append(t.events, Event("MOVE", 1, current_time))
            t1 == [t EXCEPT
                     !.path = Append(@, newPoint),
                     !.totalDistance = @ + distTravelled,
                     !.totalDistanceM = @ + distTravelledM,
                     !.totalProductiveDistance = IF productive THEN @ + distTravelled ELSE @,
                     !.totalProductiveDistanceM = IF productive THEN @ + distTravelledM ELSE @,
                     !.events = evs,
                     !.to_go = IF reached THEN Tail(@) ELSE @]
        IN [W |-> [W EXCEPT !.T[v] = t1],
            ret |-> IF t.useMeters THEN 1 ELSE MS_PER_FRAME]

\* Returns [W, ret]: ret is the time taken (0: no movement).
\* moveTrike that keeps a point at distance zero at the head of to_go
moveTrike_KeepsZeroStep(W, v, current_time) ==
    LET t == W.T[v]
        cur == Last(t.path)
    IN
    IF t.status = "TERMINAL" THEN [W |-> W, ret |-> 0]
    ELSE IF t.to_go = <<>> THEN [W |-> W, ret |-> 0]
    ELSE
      LET nxt == Head(t.to_go)
          distRequiredM == haversine(cur, nxt)
          distRequired == IF t.useMeters THEN distRequiredM
                          ELSE get_euclidean_distance(cur, nxt)
          distTravelled == Min(distRequired, t.speed1000)
          distTravelledM == IF t.useMeters THEN Min(distRequiredM, t.speed1000)
                            ELSE IF distRequired = 0 THEN 0
                            ELSE (distRequiredM * distTravelled) \div distRequired
      IN
      IF distRequired = 0
      THEN [W |-> W, ret |-> 0]
      ELSE
        LET reached == distTravelled >= distRequired
            newPoint == cur + ((nxt - cur) * distTravelled) \div distRequired
            productive == Len(t.passengers) > 0
            evs == IF t.events # <<>> /\ Last(t.events).type = "MOVE"
                   THEN [t.events EXCEPT ![Len(t.events)].data = @ + 1]
                   ELSE Append(t.events, Event("MOVE", 1, current_time))
            t1 == [t EXCEPT
                     !.path = Append(@, newPoint),
                     !.totalDistance = @ + distTravelled,
                     !.totalDistanceM = @ + distTravelledM,
                     !.totalProductiveDistance = IF productive THEN @ + distTravelled ELSE @,
                     !.totalProductiveDistanceM = IF productive THEN @ + distTravelledM ELSE @,
                     !.events = evs,
                     !.to_go = IF reached THEN Tail(@) ELSE @]
        IN [W |-> [W EXCEPT !.T[v] = t1],
            ret |-> IF t.useMeters THEN 1 ELSE MS_PER_FRAME]

moveTrike(W, v, current_time) ==
    LET t == W.T[v]
        cur == Last(t.path)
    IN
    IF t.status = "TERMINAL" THEN [W |-> W, ret |-> 0]
    ELSE IF t.to_go = <<>> THEN [W |-> W, ret |-> 0]
    ELSE
      LET nxt == Head(t.to_go)
          distRequiredM == haversine(cur, nxt)
          distRequired == IF t.useMeters THEN distRequiredM
                          ELSE get_euclidean_distance(cur, nxt)
          distTravelled == Min(distRequired, t.speed1000)
          distTravelledM == IF t.useMeters THEN Min(distRequiredM, t.speed1000)
                            ELSE IF distRequired = 0 THEN 0
                            ELSE (distRequiredM * distTravelled) \div distRequired
      IN
      IF distRequired = 0
      THEN [W |-> [W EXCEPT !.T[v].to_go = Tail(@)], ret |-> 0]
      ELSE
        LET reached == distTravelled >= distRequired   \* progress >= 1
            newPoint == cur + ((nxt - cur) * distTravelled) \div distRequired
            productive == Len(t.passengers) > 0
            evs == IF t.events # <<>> /\ Last(t.events).type = "MOVE"
                   THEN [t.events EXCEPT ![Len(t.events)].data = @ + 1]
                   ELSE Append(t.events, Event("MOVE", 1, current_time))
            t1 == [t EXCEPT
                     !.path = Append(@, newPoint),
                     !.totalDistance = @ + distTravelled,
                     !.totalDistanceM = @ + distTravelledM,
                     !.totalProductiveDistance = IF productive THEN @ + distTravelled ELSE @,
                     !.totalProductiveDistanceM = IF productive THEN @ + distTravelledM ELSE @,
                     !.events = evs,
                     !.to_go = IF reached THEN Tail(@) ELSE @]
        IN [W |-> [W EXCEPT !.T[v] = t1],
            ret |-> IF t.useMeters THEN 1 ELSE MS_PER_FRAME]

\* updatePath without the check of the length of the path
updatePath_NoLengthCheck(W, router, v, new_destination, priority) ==
    LET t == W.T[v]
        found == find_path_between_points_in_osrm(router, Last(t.path), new_destination)
        path == found.path \o <<new_destination>>
        new_points == Tail(path)
    IN
    IF found.noroute THEN [W |-> W, ret |-> FALSE]
    ELSE IF t.to_go # <<>> /\ Last(t.to_go) = new_destination
         THEN [W |-> W, ret |-> TRUE]
    ELSE [W |-> [W EXCEPT !.T[v].to_go =
                    IF priority = "replace" THEN new_points
                    ELSE IF priority = "front" THEN new_points \o @
                    ELSE @ \o new_points],
          ret |-> TRUE]

\* updatePath that looks for the duplicate destination before it asks the
\* router
updatePath_DuplicateFirst(W, router, v, new_destination, priority) ==
    LET t == W.T[v]
        found == find_path_between_points_in_osrm(router, Last(t.path), new_destination)
        path == found.path \o <<new_destination>>
        new_points == Tail(path)
    IN
    IF t.to_go # <<>> /\ Last(t.to_go) = new_destination
    THEN [W |-> W, ret |-> TRUE]
    ELSE IF found.noroute THEN [W |-> W, ret |-> FALSE]
    ELSE IF Len(path) < 3 THEN [W |-> W, ret |-> FALSE]
    ELSE [W |-> [W EXCEPT !.T[v].to_go =
                    IF priority = "replace" THEN new_points
                    ELSE IF priority = "front" THEN new_points \o @
                    ELSE @ \o new_points],
          ret |-> TRUE]

\* Returns [W, ret]: ret is True/False.
updatePath(W, router, v, new_destination, priority) ==
    LET t == W.T[v]
        found == find_path_between_points_in_osrm(router, Last(t.path), new_destination)
        path == found.path \o <<new_destination>>
        new_points == Tail(path)
    IN
    IF found.noroute THEN [W |-> W, ret |-> FALSE]
    ELSE IF Len(path) < 3 THEN [W |-> W, ret |-> FALSE]
    ELSE IF t.to_go # <<>> /\ Last(t.to_go) = new_destination
         THEN [W |-> W, ret |-> TRUE]
    ELSE [W |-> [W EXCEPT !.T[v].to_go =
                    IF priority = "replace" THEN new_points
                    ELSE IF priority = "front" THEN new_points \o @
                    ELSE @ \o new_points],
          ret |-> TRUE]

\* loadNextCyclePoint that loads nothing
loadNextCyclePoint_Skips(W, router, v) == W

loadNextCyclePoint(W, router, v) ==
    IF W.T[v].roamPath = <<>> THEN W
    ELSE updatePath(W, router, v,
                    getNextPoint(W.T[v].roamPath, Last(W.T[v].path)), "append").W

validateStatusTransition(status, new_status) ==
    new_status \in
        CASE status = "IDLE" -> {"SERVING", "TERMINAL"}
          [] status = "SERVING" -> {"RETURNING_TO_TERMINAL", "ROAMING"}
          [] status = "TERMINAL" -> {"SERVING"}
          [] status = "ROAMING" -> {"SERVING"}
          [] status = "RETURNING_TO_TERMINAL" -> {"TERMINAL"}
          [] OTHER -> {}

\* setStatus that does not validate the transition
setStatus_NoValidation(W, router, v, new_status) ==
    LET W1 == IF new_status = "ROAMING"
              THEN loadNextCyclePoint([W EXCEPT !.T[v].to_go = <<>>], router, v)
              ELSE W
    IN [W |-> [W1 EXCEPT !.T[v].status = new_status], ret |-> TRUE]

\* Returns [W, ret]: ret is True/False.
setStatus(W, router, v, new_status) ==
    IF validateStatusTransition(W.T[v].status, new_status)
    THEN LET W1 == IF new_status = "ROAMING"
                   THEN loadNextCyclePoint([W EXCEPT !.T[v].to_go = <<>>], router, v)
                   ELSE W
         IN [W |-> [W1 EXCEPT !.T[v].status = new_status], ret |-> TRUE]
    ELSE [W |-> W, ret |-> FALSE]

\* finishTrip that records the event and leaves the trike active
finishTrip_StaysActive(W, v, current_time) ==
    [W EXCEPT !.T[v].events = Append(@, Event("FINISH", None, current_time))]

finishTrip(W, v, current_time) ==
    [W EXCEPT !.T[v].active = FALSE,
              !.T[v].events = Append(@, Event("FINISH", None, current_time))]

\* loadPassenger without the capacity check
loadPassenger_NoCapacityCheck(W, router, v, p, current_time) ==
    LET W1 == [W EXCEPT
                 !.T[v].events = @ \o <<Event("LOAD", p, current_time),
                                         Event("WAIT", 100, current_time)>>,
                 !.T[v].passengers = Append(@, p),
                 !.T[v].enqueued_passengers = @ \ {p}]
        W2 == onLoad(W1, p, v, current_time)
        W3 == IF W2.T[v].status # "SERVING"
              THEN setStatus(W2, router, v, "SERVING").W
              ELSE W2
    IN [W |-> W3, ret |-> TRUE]

\* Returns [W, ret]: ret is True/False.
loadPassenger(W, router, v, p, current_time) ==
    IF Len(W.T[v].passengers) >= W.T[v].capacity THEN [W |-> W, ret |-> FALSE]
    ELSE
      LET W1 == [W EXCEPT
                   !.T[v].events = @ \o <<Event("LOAD", p, current_time),
                                           Event("WAIT", 100, current_time)>>,
                   !.T[v].passengers = Append(@, p),
                   !.T[v].enqueued_passengers = @ \ {p}]
          W2 == onLoad(W1, p, v, current_time)
          W3 == IF W2.T[v].status # "SERVING"
                THEN setStatus(W2, router, v, "SERVING").W
                ELSE W2
      IN [W |-> W3, ret |-> TRUE]

\* scheduleNextPassenger that takes the last passenger
scheduleNextPassenger_TakesLast(W, router, v) ==
    IF Len(W.T[v].passengers) = 0 THEN [W |-> W, ret |-> None, raised |-> TRUE]
    ELSE
      LET p == Last(W.T[v].passengers)
          up == updatePath(W, router, v, W.P[p].dest, "replace")
      IN IF up.ret THEN [W |-> up.W, ret |-> p, raised |-> FALSE]
         ELSE [W |-> up.W, ret |-> None, raised |-> FALSE]

\* Returns [W, ret, raised]: ret is the passenger scheduled or None; raised
\* tells that NoMorePassengers was raised. Without a scheduler the first
\* passenger is taken.
scheduleNextPassenger(W, router, v) ==
    IF Len(W.T[v].passengers) = 0 THEN [W |-> W, ret |-> None, raised |-> TRUE]
    ELSE
      LET p == W.T[v].passengers[1]
          up == updatePath(W, router, v, W.P[p].dest, "replace")
      IN IF up.ret THEN [W |-> up.W, ret |-> p, raised |-> FALSE]
         ELSE [W |-> up.W, ret |-> None, raised |-> FALSE]

\* the loop of enqueueNearbyPassengers without the filter on the passenger's
\* status and claim
RECURSIVE enqueueLoop_NoWaitingCheck(_, _, _, _, _, _, _, _)
enqueueLoop_NoWaitingCheck(W, router, v, nearby, i, enqueued, remaining_capacity, current_time) ==
    IF i > Len(nearby) \/ Len(enqueued) >= remaining_capacity
    THEN [W |-> W, ret |-> enqueued]
    ELSE
      LET p == nearby[i]
          W1 == onEnqueue(W, p, v, current_time)
          W2 == [W1 EXCEPT
                   !.T[v].enqueued_passengers = @ \cup {p},
                   !.T[v].events = Append(@, Event("ENQUEUE", p, current_time))]
          W3 == IF \E k \in 1..Len(W2.T[v].to_go) : W2.T[v].to_go[k] = W2.P[p].src
                THEN W2
                ELSE updatePath(W2, router, v, W2.P[p].src, "front").W
      IN enqueueLoop_NoWaitingCheck(W3, router, v, nearby, i + 1, Append(enqueued, p),
                                    remaining_capacity, current_time)

\* the loop of enqueueNearbyPassengers that does not stop at the remaining
\* capacity
RECURSIVE enqueueLoop_IgnoresRoom(_, _, _, _, _, _, _, _)
enqueueLoop_IgnoresRoom(W, router, v, nearby, i, enqueued, remaining_capacity, current_time) ==
    IF i > Len(nearby)
    THEN [W |-> W, ret |-> enqueued]
    ELSE
      LET p == nearby[i] IN
      IF W.P[p].status # "WAITING"
      THEN enqueueLoop_IgnoresRoom(W, router, v, nearby, i + 1, enqueued,
                                   remaining_capacity, current_time)
      ELSE IF W.P[p].claimed_by # None /\ W.P[p].claimed_by # v
      THEN enqueueLoop_IgnoresRoom(W, router, v, nearby, i + 1, enqueued,
                                   remaining_capacity, current_time)
      ELSE
        LET W1 == onEnqueue(W, p, v, current_time)
            W2 == [W1 EXCEPT
                     !.T[v].enqueued_passengers = @ \cup {p},
                     !.T[v].events = Append(@, Event("ENQUEUE", p, current_time))]
            W3 == IF \E k \in 1..Len(W2.T[v].to_go) : W2.T[v].to_go[k] = W2.P[p].src
                  THEN W2
                  ELSE updatePath(W2, router, v, W2.P[p].src, "front").W
        IN enqueueLoop_IgnoresRoom(W3, router, v, nearby, i + 1, Append(enqueued, p),
                                   remaining_capacity, current_time)

\* The loop of enqueueNearbyPassengers from position i of nearby_passengers,
\* with `enqueued` the passengers enqueued so far. Returns [W, ret].
RECURSIVE enqueueLoop(_, _, _, _, _, _, _, _)
enqueueLoop(W, router, v, nearby, i, enqueued, remaining_capacity, current_time) ==
    IF i > Len(nearby) \/ Len(enqueued) >= remaining_capacity
    THEN [W |-> W, ret |-> enqueued]
    ELSE
      LET p == nearby[i] IN
      IF W.P[p].status # "WAITING"
      THEN enqueueLoop(W, router, v, nearby, i + 1, enqueued, remaining_capacity, current_time)
      ELSE IF W.P[p].claimed_by # None /\ W.P[p].claimed_by # v
      THEN enqueueLoop(W, router, v, nearby, i + 1, enqueued, remaining_capacity, current_time)
      ELSE
        LET W1 == onEnqueue(W, p, v, current_time)
            W2 == [W1 EXCEPT
                     !.T[v].enqueued_passengers = @ \cup {p},
                     !.T[v].events = Append(@, Event("ENQUEUE", p, current_time))]
            W3 == IF \E k \in 1..Len(W2.T[v].to_go) : W2.T[v].to_go[k] = W2.P[p].src
                  THEN W2
                  ELSE updatePath(W2, router, v, W2.P[p].src, "front").W
        IN enqueueLoop(W3, router, v, nearby, i + 1, Append(enqueued, p),
                       remaining_capacity, current_time)

\* Returns [W, ret]: ret is the list of newly enqueued passengers.
enqueueNearbyPassengers(W, router, v, current_time) ==
    LET t == W.T[v]
        remaining_capacity ==
            t.capacity - (Len(t.passengers) + Cardinality(t.enqueued_passengers))
    IN IF remaining_capacity <= 0 THEN [W |-> W, ret |-> <<>>]
       ELSE enqueueLoop(W, router, v,
                        getNearbyPassengers(W, Last(t.path), DETECTION_RADIUS_METERS),
                        1, <<>>, remaining_capacity, current_time)

\* the loop of tryLoad that also loads the passengers nobody claimed
RECURSIVE tryLoadLoop_LoadsUnclaimed(_, _, _, _, _, _, _)
tryLoadLoop_LoadsUnclaimed(W, router, v, nearby, i, loaded, current_time) ==
    IF i > Len(nearby) THEN [W |-> W, ret |-> loaded]
    ELSE
      LET p == nearby[i] IN
      IF W.P[p].claimed_by # None /\ W.P[p].claimed_by # v
      THEN tryLoadLoop_LoadsUnclaimed(W, router, v, nearby, i + 1, loaded, current_time)
      ELSE
        LET ld == loadPassenger(W, router, v, p, current_time) IN
        IF ld.ret
        THEN tryLoadLoop_LoadsUnclaimed(
                 scheduleNextPassenger(removePassenger(ld.W, p), router, v).W,
                 router, v, nearby, i + 1, Append(loaded, p), current_time)
        ELSE tryLoadLoop_LoadsUnclaimed(onReset(ld.W, p, current_time),
                 router, v, nearby, i + 1, loaded, current_time)

\* the loop of tryLoad that schedules the next drop-off only when nobody was
\* on board before the load
RECURSIVE tryLoadLoop_SchedulesWhenEmpty(_, _, _, _, _, _, _)
tryLoadLoop_SchedulesWhenEmpty(W, router, v, nearby, i, loaded, current_time) ==
    IF i > Len(nearby) THEN [W |-> W, ret |-> loaded]
    ELSE
      LET p == nearby[i] IN
      IF W.P[p].status # "ENQUEUED" \/ W.P[p].claimed_by # v
      THEN tryLoadLoop_SchedulesWhenEmpty(W, router, v, nearby, i + 1, loaded, current_time)
      ELSE
        LET ld == loadPassenger(W, router, v, p, current_time) IN
        IF ld.ret
        THEN tryLoadLoop_SchedulesWhenEmpty(
                 IF W.T[v].passengers = <<>>
                 THEN scheduleNextPassenger(removePassenger(ld.W, p), router, v).W
                 ELSE removePassenger(ld.W, p),
                 router, v, nearby, i + 1, Append(loaded, p), current_time)
        ELSE tryLoadLoop_SchedulesWhenEmpty(onReset(ld.W, p, current_time),
                 router, v, nearby, i + 1, loaded, current_time)

\* The loop of tryLoad from position i of nearby_passengers. Returns [W, ret].
RECURSIVE tryLoadLoop(_, _, _, _, _, _, _)
tryLoadLoop(W, router, v, nearby, i, loaded, current_time) ==
    IF i > Len(nearby) THEN [W |-> W, ret |-> loaded]
    ELSE
      LET p == nearby[i] IN
      IF W.P[p].status # "ENQUEUED" \/ W.P[p].claimed_by # v
      THEN tryLoadLoop(W, router, v, nearby, i + 1, loaded, current_time)
      ELSE
        LET ld == loadPassenger(W, router, v, p, current_time) IN
        IF ld.ret
        THEN tryLoadLoop(scheduleNextPassenger(removePassenger(ld.W, p), router, v).W,
                         router, v, nearby, i + 1, Append(loaded, p), current_time)
        ELSE tryLoadLoop(onReset(ld.W, p, current_time),
                         router, v, nearby, i + 1, loaded, current_time)

\* Returns [W, ret]: ret is the list of loaded passengers.
tryLoad(W, router, v, current_time) ==
    tryLoadLoop(W, router, v,
                getNearbyPassengers(W, Last(W.T[v].path), PICKUP_RADIUS_METERS),
                1, <<>>, current_time)

\* the loop of tryOffload that drops nobody
tryOffloadLoop_DropsNobody(W, v, snapshot, i, dropped, current_time) ==
    [W |-> W, ret |-> dropped]

\* the loop of tryOffload that does not look at the distance
RECURSIVE tryOffloadLoop_IgnoresRadius(_, _, _, _, _, _)
tryOffloadLoop_IgnoresRadius(W, v, snapshot, i, dropped, current_time) ==
    IF i > Len(snapshot) THEN [W |-> W, ret |-> dropped]
    ELSE
      LET p == snapshot[i]
          W1 == [W EXCEPT
                   !.T[v].events = Append(@, Event("DROP-OFF", p, current_time)),
                   !.T[v].passengers = RemoveAll(@, p)]
      IN tryOffloadLoop_IgnoresRadius(onDropoff(W1, p, current_time), v, snapshot, i + 1,
                                      Append(dropped, p), current_time)

\* The loop of tryOffload over the snapshot of the passengers. Returns [W, ret].
RECURSIVE tryOffloadLoop(_, _, _, _, _, _)
tryOffloadLoop(W, v, snapshot, i, dropped, current_time) ==
    IF i > Len(snapshot) THEN [W |-> W, ret |-> dropped]
    ELSE
      LET p == snapshot[i] IN
      IF haversine(Last(W.T[v].path), W.P[p].dest) <= DROPOFF_RADIUS_METERS * 1000
      THEN LET W1 == [W EXCEPT
                        !.T[v].events = Append(@, Event("DROP-OFF", p, current_time)),
                        !.T[v].passengers = RemoveAll(@, p)]
           IN tryOffloadLoop(onDropoff(W1, p, current_time), v, snapshot, i + 1,
                             Append(dropped, p), current_time)
      ELSE tryOffloadLoop(W, v, snapshot, i + 1, dropped, current_time)

\* Returns [W, ret]: ret is the list of passengers dropped off.
tryOffload(W, router, v, current_time) ==
    LET lp == tryOffloadLoop(W, v, W.T[v].passengers, 1, <<>>, current_time)
        W1 == lp.W
        W2 == IF W1.T[v].passengers = <<>>
              THEN IF W1.T[v].isRoaming
                   THEN IF W1.T[v].status # "ROAMING"
                        THEN setStatus(W1, router, v, "ROAMING").W
                        ELSE W1
                   ELSE IF W1.T[v].status # "RETURNING_TO_TERMINAL"
                        THEN setStatus(W1, router, v, "RETURNING_TO_TERMINAL").W
                        ELSE W1
              ELSE W1
        W3 == IF lp.ret # <<>>
              THEN AddTrikeEvent(W2, v, Event("WAIT", 100, current_time))
              ELSE W2
    IN [W |-> W3, ret |-> lp.ret]

\* ------------------------------------------------------------ Terminal
NewTerminal(location) == [location |-> location, queue |-> <<>>, passengers |-> <<>>]

isEmptyOfPassengers(W, tm) == Len(W.Tm[tm].passengers) = 0

isEmptyOfTrikes(W, tm) == Len(W.Tm[tm].queue) = 0

\* addTricycle that leaves the trike active
addTricycle_StaysActive(W, router, tm, v) ==
    IF W.T[v].status \notin {"IDLE", "RETURNING_TO_TERMINAL"} THEN W
    ELSE setStatus([W EXCEPT !.Tm[tm].queue = Append(@, v)],
                   router, v, "TERMINAL").W

\* addTricycle without the check of the status
addTricycle_AcceptsAny(W, router, tm, v) ==
    setStatus([W EXCEPT !.Tm[tm].queue = Append(@, v),
                        !.T[v].active = FALSE],
              router, v, "TERMINAL").W

addTricycle(W, router, tm, v) ==
    IF W.T[v].status \notin {"IDLE", "RETURNING_TO_TERMINAL"} THEN W
    ELSE setStatus([W EXCEPT !.Tm[tm].queue = Append(@, v),
                             !.T[v].active = FALSE],
                   router, v, "TERMINAL").W

addPassenger(W, tm, p) == [W EXCEPT !.Tm[tm].passengers = Append(@, p)]

\* the loop of loadTricycle that stops after the first passenger
loadTricycleLoop_LoadsOne(W, router, tm, topTrike, loaded, current_time) ==
    IF Len(W.Tm[tm].passengers) = 0 THEN [W |-> W, ret |-> loaded]
    ELSE
      LET topPassenger == Head(W.Tm[tm].passengers)
          ld == loadPassenger(W, router, topTrike, topPassenger, current_time)
      IN IF ld.ret
         THEN [W |-> [ld.W EXCEPT !.Tm[tm].passengers = Tail(@)],
               ret |-> Append(loaded, topPassenger)]
         ELSE [W |-> W, ret |-> loaded]

\* The while loop of loadTricycle. Returns [W, ret]: ret is res["passengers"].
RECURSIVE loadTricycleLoop(_, _, _, _, _, _)
loadTricycleLoop(W, router, tm, topTrike, loaded, current_time) ==
    IF Len(W.Tm[tm].passengers) = 0 THEN [W |-> W, ret |-> loaded]
    ELSE
      LET topPassenger == Head(W.Tm[tm].passengers)
          ld == loadPassenger(W, router, topTrike, topPassenger, current_time)
      IN IF ld.ret
         THEN loadTricycleLoop([ld.W EXCEPT !.Tm[tm].passengers = Tail(@)],
                               router, tm, topTrike, Append(loaded, topPassenger),
                               current_time)
         ELSE [W |-> W, ret |-> loaded]

\* Returns [W, ret, tricycle]; tricycle is None when nothing was loaded.
loadTricycle(W, router, tm, current_time) ==
    IF Len(W.Tm[tm].queue) = 0 \/ Len(W.Tm[tm].passengers) = 0
    THEN [W |-> W, ret |-> <<>>, tricycle |-> None]
    ELSE LET topTrike == Head(W.Tm[tm].queue)
             lp == loadTricycleLoop(W, router, tm, topTrike, <<>>, current_time)
         IN [W |-> lp.W, ret |-> lp.ret,
             tricycle |-> IF lp.ret # <<>> THEN topTrike ELSE None]

\* popTricycle that activates the head of the queue and leaves it queued
popTricycle_KeepsQueued(W, tm) ==
    IF isEmptyOfTrikes(W, tm) THEN W
    ELSE [W EXCEPT !.T[Head(W.Tm[tm].queue)].active = TRUE]

popTricycle(W, tm) ==
    IF isEmptyOfTrikes(W, tm) THEN W
    ELSE LET trike == Head(W.Tm[tm].queue)
         IN [W EXCEPT !.Tm[tm].queue = Tail(@), !.T[trike].active = TRUE]

\* ------------------------------------------------- Simulator.run: setup
\* a clock that advances by MS_PER_FRAME in every mode
ClockStep_AlwaysFrame == MS_PER_FRAME

ClockStep == IF config.isRealistic THEN 1 ELSE MS_PER_FRAME

maxTime == MaxTicks * ClockStep

\* How a trike is generated: roaming on Cycle(terminal location, hotspot),
\* or parked in a terminal.
TrikeKinds ==
    {[isRoaming |-> TRUE, terminal |-> 1, hotspot |-> Place.Mid],
     [isRoaming |-> FALSE, terminal |-> 1, hotspot |-> None],
     [isRoaming |-> FALSE, terminal |-> 2, hotspot |-> None]}

\* How a passenger is generated: on the road at a hotspot (terminal = None),
\* or in a terminal's queue at the terminal's location.
PassengerKinds ==
    <<[terminal |-> None, src |-> Place.NearT1, dest |-> Place.Mid],
      [terminal |-> None, src |-> Place.Mid, dest |-> Place.T1],
      [terminal |-> 1, src |-> Place.T1, dest |-> Place.Mid],
      [terminal |-> 1, src |-> Place.T1, dest |-> Place.NearT1],
      [terminal |-> None, src |-> Place.T1, dest |-> Place.Mid]>>

\* The passengers of a run: passenger p is of kind PassengerKinds[k[p]]; the
\* kinds are taken in the order of the list.
PassengerChoices ==
    {k \in [PassengerIds -> DOMAIN PassengerKinds] :
        \A p, q \in PassengerIds : p < q => k[p] <= k[q]}

\* The road networks a run may have: every route found, the routes to the
\* middle hotspot too short, or no route to the first terminal.
Routers ==
    {[bad |-> {}, kind |-> "short"],
     [bad |-> {Place.Mid}, kind |-> "short"],
     [bad |-> {Place.T1}, kind |-> "none"]}

\* isRealistic: the clock advances by 1 and trikes use metres; otherwise the
\* clock advances by MS_PER_FRAME. Every frame checks the enqueue timeouts.
Configs ==
    [isRealistic : BOOLEAN,
     capacity : 1..MaxCapacity,
     router : Routers]

\* the ids of a set in creation order
RECURSIVE SeqOfIds(_)
SeqOfIds(ids) ==
    IF ids = {} THEN <<>>
    ELSE LET m == CHOOSE i \in ids : \A j \in ids : i <= j
         IN <<m>> \o SeqOfIds(ids \ {m})

\* Tricycle generation: a parked trike is added to its terminal (IDLE -> TERMINAL).
InitTrike(cfg, kind) ==
    LET t == NewTricycle(cfg.capacity, REALISTIC_SPEED_MILLI,
                         IF kind.isRoaming
                         THEN <<TerminalLocation(kind.terminal), kind.hotspot>>
                         ELSE <<>>,
                         kind.isRoaming, TerminalLocation(kind.terminal),
                         None, cfg.isRealistic)
    IN IF kind.isRoaming THEN t
       ELSE [t EXCEPT !.active = FALSE, !.status = "TERMINAL"]

\* no call made yet
\* the arguments of Simulator.__init__ that its checks read: the three
\* counts, roamingTrikeChance in thousandths and the lengths of the two
\* distributions
SimulatorArgs ==
    [totalTrikes : {-1, 1, 2}, totalTerminals : {-1, 0, 1, 2},
     totalPassengers : {-1, 1}, roamingTrikeChance : {0, 1000},
     terminalPassengerDistrib : 0..2, terminalTrikeDistrib : 0..2]

NoArgs ==
    [totalTrikes |-> 1, totalTerminals |-> 1, totalPassengers |-> 1,
     roamingTrikeChance |-> 0, terminalPassengerDistrib |-> 0,
     terminalTrikeDistrib |-> 0]

\* the checks of Simulator.__init__: TRUE when it raises ImproperConfig
ImproperConfig(a) ==
    \/ a.totalTerminals < 0
    \/ a.totalPassengers < 0
    \/ a.totalTrikes < 0
    \/ /\ a.totalTerminals = 0
       /\ a.roamingTrikeChance < 1000
       /\ (1000 - a.roamingTrikeChance) > 1
    \/ /\ ~(a.terminalPassengerDistrib = 0)
       /\ ~(a.terminalPassengerDistrib = a.totalTerminals)
    \/ /\ ~(a.terminalTrikeDistrib = 0)
       /\ ~(a.terminalTrikeDistrib = a.totalTrikes)

NoCall ==
    [op |-> "none", p1 |-> None, p2 |-> None, dests |-> <<>>, ret |-> NoPath,
     start_index |-> 0, calls |-> 0, fixedHotspots |-> <<>>, validFixedHotspots |-> <<>>,
     args |-> NoArgs, raised |-> FALSE,
     trike |-> 1, priority |-> "append", to_go |-> <<>>, ok |-> FALSE]

\* the module-level state when the process starts: dist_cache = {} and
\* cache = None
FreshProcess ==
    /\ dist_cache = [k \in {} |-> NoPath]
    /\ cache = <<>>
    /\ observed = NoCall
    /\ ops = 0

Init ==
    \E cfg \in Configs, tk \in [TrikeIds -> TrikeKinds], k \in PassengerChoices :
      LET pk == [p \in PassengerIds |-> PassengerKinds[k[p]]] IN
        /\ config = cfg
        /\ tricycles = [v \in TrikeIds |-> InitTrike(cfg, tk[v])]
        /\ passengers = [p \in PassengerIds |-> NewPassenger(pk[p].src, pk[p].dest, 0)]
        /\ terminals = [tm \in TerminalIds |->
               [location |-> TerminalLocation(tm),
                queue |-> SeqOfIds({v \in TrikeIds : ~tk[v].isRoaming /\ tk[v].terminal = tm}),
                passengers |-> SeqOfIds({p \in PassengerIds : pk[p].terminal = tm})]]
        /\ map_passengers = SeqOfIds({p \in PassengerIds : pk[p].terminal = None})
        /\ cur_time = 0
        /\ last_active = -1
        /\ pc = "offload"
        /\ idx = 1
        /\ FreshProcess

\* ------------------------------------------- Simulator.run.process_frame
NumTrikes == Cardinality(TrikeIds)
NumTerminals == Cardinality(TerminalIds)

Commit(W) ==
    /\ passengers' = W.P
    /\ tricycles' = W.T
    /\ terminals' = W.Tm
    /\ map_passengers' = W.M

\* process_passenger, for each passenger of `loaded`
RECURSIVE process_passengers(_, _, _)
process_passengers(W, loaded, now) ==
    IF loaded = <<>> THEN W
    ELSE process_passengers(
             [W EXCEPT !.P[Head(loaded)].deathTime = now,
                       !.P[Head(loaded)].status = "ONBOARD"],
             Tail(loaded), now)

\* the first loop goes on to the next trike, or the second loop starts
NextInFirstLoop ==
    IF idx < NumTrikes THEN pc' = "offload" /\ idx' = idx + 1
    ELSE pc' = "move" /\ idx' = 1

\* the second loop goes on to the next trike, or the terminals' loop starts
NextInSecondLoop ==
    IF idx < NumTrikes THEN pc' = "move" /\ idx' = idx + 1
    ELSE pc' = "terminals" /\ idx' = 1

IsInSeq(x, seq) == \E i \in 1..Len(seq) : seq[i] = x

\* first loop, `if not trike.active: continue`
FirstLoopSkip ==
    /\ pc = "offload"
    /\ ~tricycles[idx].active
    /\ NextInFirstLoop
    /\ UNCHANGED <<process, config, passengers, tricycles, terminals, map_passengers,
                   cur_time, last_active>>

\* first loop, trike.tryOffload()
FirstLoopOffload ==
    /\ pc = "offload"
    /\ tricycles[idx].active
    /\ LET r == tryOffload(World, config.router, idx, cur_time)
       IN /\ Commit(r.W)
          /\ last_active' = IF r.ret # <<>> THEN cur_time ELSE last_active
    /\ pc' = "enqueue"
    /\ UNCHANGED <<process, config, cur_time, idx>>

\* first loop, trike.checkPassengers(): the claims of nearby passengers
FirstLoopEnqueue ==
    /\ pc = "enqueue"
    /\ Commit(enqueueNearbyPassengers(World, config.router, idx, cur_time).W)
    /\ pc' = "load"
    /\ UNCHANGED <<process, config, cur_time, last_active, idx>>

\* first loop, trike.checkPassengers(): the loads, then process_passenger
FirstLoopLoad ==
    /\ pc = "load"
    /\ LET r == tryLoad(World, config.router, idx, cur_time)
       IN Commit(process_passengers(r.W, r.ret, cur_time))
    /\ NextInFirstLoop
    /\ UNCHANGED <<process, config, cur_time, last_active>>

\* Map.same_loc: the same-location predicate of the terminal search
same_loc(a, b) == isAtLocation(a, b, AT_LOCATION_THRESHOLD_METERS)

\* Tricycle.processNextPassenger: the next drop-off is scheduled
processNextPassenger(W, router, v) == scheduleNextPassenger(W, router, v)

\* Tricycle.addToGo: the path to the location is appended; NoRoute reaches
\* the caller. Returns [W, noroute].
addToGo(W, router, v, location) ==
    IF find_path_between_points_in_osrm(router, Last(W.T[v].path), location).noroute
    THEN [W |-> W, noroute |-> TRUE]
    ELSE [W |-> updatePath(W, router, v, location, "append").W, noroute |-> FALSE]

\* The loop over the terminals from terminal tm on. Returns [W, nearest, parked]:
\* parked is nearest_distance = -1, nearest = None with ~parked is
\* nearest_distance = None.
RECURSIVE nearestTerminalLoop(_, _, _, _, _)
nearestTerminalLoop(W, router, v, tm, nearest) ==
    IF tm > NumTerminals THEN [W |-> W, nearest |-> nearest, parked |-> FALSE]
    ELSE IF same_loc(W.Tm[tm].location, curPoint(W, v))
    THEN [W |-> addTricycle(W, router, tm, v), nearest |-> None, parked |-> TRUE]
    ELSE IF \/ nearest = None
            \/ get_euclidean_distance(curPoint(W, v), W.Tm[tm].location)
                 < get_euclidean_distance(curPoint(W, v), W.Tm[nearest].location)
    THEN nearestTerminalLoop(W, router, v, tm + 1, tm)
    ELSE nearestTerminalLoop(W, router, v, tm + 1, nearest)

\* the no-progress branch that looks for a terminal also for a trike that
\* still has passengers
trikeDidNotMove_ParksLoaded(W, router, v, now) ==
    LET off == tryOffload(W, router, v, now) IN
    IF ~off.W.T[v].isRoaming
    THEN LET found == nearestTerminalLoop(
                          [off.W EXCEPT !.T[v].status = "RETURNING_TO_TERMINAL"],
                          router, v, 1, None) IN
         IF found.nearest # None
         THEN LET go == addToGo(found.W, router, v, found.W.Tm[found.nearest].location)
              IN [W |-> IF go.noroute THEN finishTrip(go.W, v, now) ELSE go.W,
                  ret |-> off.ret]
         ELSE IF ~found.parked
         THEN [W |-> finishTrip(found.W, v, now), ret |-> off.ret]
         ELSE [W |-> found.W, ret |-> off.ret]
    ELSE [W |-> loadNextCyclePoint(off.W, router, v), ret |-> off.ret]

\* `if not time_taken:` of the second loop. Returns [W, ret]: ret is the list
\* of the passengers dropped off.
trikeDidNotMove(W, router, v, now) ==
    LET off == tryOffload(W, router, v, now) IN
    IF hasPassenger(off.W, v)
    THEN [W |-> processNextPassenger(off.W, router, v).W, ret |-> off.ret]
    ELSE IF ~off.W.T[v].isRoaming
    THEN LET found == nearestTerminalLoop(off.W, router, v, 1, None) IN
         IF found.nearest # None
         THEN LET go == addToGo(found.W, router, v, found.W.Tm[found.nearest].location)
              IN [W |-> IF go.noroute THEN finishTrip(go.W, v, now) ELSE go.W,
                  ret |-> off.ret]
         ELSE IF ~found.parked
         THEN [W |-> finishTrip(found.W, v, now), ret |-> off.ret]
         ELSE [W |-> found.W, ret |-> off.ret]
    ELSE [W |-> loadNextCyclePoint(off.W, router, v), ret |-> off.ret]

\* second loop, `if not trike.active: continue`
SecondLoopSkip ==
    /\ pc = "move"
    /\ ~tricycles[idx].active
    /\ NextInSecondLoop
    /\ UNCHANGED <<process, config, passengers, tricycles, terminals, map_passengers,
                   cur_time, last_active>>

\* second loop, trike.moveTrike() with progress
SecondLoopMove ==
    /\ pc = "move"
    /\ tricycles[idx].active
    /\ LET r == moveTrike(World, idx, cur_time)
       IN /\ r.ret # 0
          /\ Commit(r.W)
    /\ NextInSecondLoop
    /\ UNCHANGED <<process, config, cur_time, last_active>>

\* second loop, trike.moveTrike() without progress, and what follows it
SecondLoopNoMove ==
    /\ pc = "move"
    /\ tricycles[idx].active
    /\ LET r == moveTrike(World, idx, cur_time)
       IN /\ r.ret = 0
          /\ LET f == trikeDidNotMove(r.W, config.router, idx, cur_time)
             IN /\ Commit(f.W)
                /\ last_active' = IF f.ret # <<>> THEN cur_time ELSE last_active
    /\ NextInSecondLoop
    /\ UNCHANGED <<process, config, cur_time>>

\* terminals' loop: one turn of the while loop that loads the top trike
TerminalLoad ==
    /\ pc = "terminals"
    /\ ~isEmptyOfPassengers(World, idx) /\ ~isEmptyOfTrikes(World, idx)
    /\ LET r == loadTricycle(World, config.router, idx, cur_time)
       IN /\ Len(r.ret) # 0
          /\ Commit(popTricycle(process_passengers(r.W, r.ret, cur_time), idx))
    /\ UNCHANGED <<process, config, cur_time, last_active, pc, idx>>

\* terminals' loop: the while loop of a terminal ends
TerminalDone ==
    /\ pc = "terminals"
    /\ \/ isEmptyOfPassengers(World, idx)
       \/ isEmptyOfTrikes(World, idx)
       \/ Len(loadTricycle(World, config.router, idx, cur_time).ret) = 0
    /\ IF idx < NumTerminals THEN pc' = "terminals" /\ idx' = idx + 1
       ELSE pc' = "timeouts" /\ idx' = 1
    /\ UNCHANGED <<process, config, passengers, tricycles, terminals, map_passengers,
                   cur_time, last_active>>

\* World.check_enqueue_timeouts(now) of the frame
CheckTimeouts ==
    /\ pc = "timeouts"
    /\ Commit(checkEnqueuedPassengers(World, cur_time))
    /\ pc' = "advance"
    /\ UNCHANGED <<process, config, cur_time, last_active, idx>>

\* cur_time[0] += 1 if self.isRealistic else MS_PER_FRAME; while cur_time < maxTime
AdvanceClock ==
    /\ pc = "advance"
    /\ cur_time' = cur_time + ClockStep
    /\ pc' = IF cur_time' < maxTime THEN "offload" ELSE "finish"
    /\ UNCHANGED <<process, config, passengers, tricycles, terminals, map_passengers,
                   last_active, idx>>

\* after the loop: last_active is advanced, every trike gets its deathTime and
\* waitingTime. waitingTime = last_active - totalDistance/speed is carried
\* times speed*1000: totalDistance is in millimetres under useMeters (metres
\* times 1000) and in coordinate units otherwise.
\* the end of a run with the waiting time clamped at zero
FinishRun_Clamped ==
    /\ pc = "finish"
    /\ last_active' = last_active + ClockStep
    /\ tricycles' = [v \in TrikeIds |->
           [tricycles[v] EXCEPT
              !.deathTime = last_active',
              !.waitingTime =
                  LET w == last_active' * tricycles[v].speed1000
                             - (IF tricycles[v].useMeters THEN tricycles[v].totalDistance
                                ELSE tricycles[v].totalDistance * 1000)
                  IN IF w < 0 THEN 0 ELSE w]]
    /\ pc' = "done"
    /\ UNCHANGED <<process, config, passengers, terminals, map_passengers, cur_time, idx>>

FinishRun ==
    /\ pc = "finish"
    /\ last_active' = last_active + ClockStep
    /\ tricycles' = [v \in TrikeIds |->
           [tricycles[v] EXCEPT
              !.deathTime = last_active',
              !.waitingTime = last_active' * tricycles[v].speed1000
                  - (IF tricycles[v].useMeters THEN tricycles[v].totalDistance
                     ELSE tricycles[v].totalDistance * 1000)]]
    /\ pc' = "done"
    /\ UNCHANGED <<process, config, passengers, terminals, map_passengers, cur_time, idx>>

Next ==
    \/ FirstLoopSkip
    \/ FirstLoopOffload
    \/ FirstLoopEnqueue
    \/ FirstLoopLoad
    \/ SecondLoopSkip
    \/ SecondLoopMove
    \/ SecondLoopNoMove
    \/ TerminalLoad
    \/ TerminalDone
    \/ CheckTimeouts
    \/ AdvanceClock
    \/ FinishRun

Spec == Init /\ [][Next]_vars

\* ------------------------------------------- faults of the router
\* The run in which a call of the router may raise an exception other than
\* NoRoute (the service fails): Tricycle.updatePath and addToGo let it through.

\* the turn of trike v in the first loop, at the phase pc, calls the router
CallsRouterInFirstLoop(v) ==
    \/ /\ pc = "offload"
       /\ tricycles[v].passengers # <<>>
       /\ tryOffload(World, config.router, v, cur_time).W.T[v].passengers = <<>>
       /\ tricycles[v].isRoaming /\ tricycles[v].roamPath # <<>>
       /\ validateStatusTransition(tricycles[v].status, "ROAMING")
    \/ /\ pc = "enqueue"
       /\ LET enq == enqueueNearbyPassengers(World, config.router, v, cur_time).ret
          IN enq # <<>> /\ ~IsInSeq(passengers[enq[1]].src, tricycles[v].to_go)
    \/ /\ pc = "load"
       /\ tricycles[v].passengers = <<>>
       /\ tryLoad(World, config.router, v, cur_time).ret # <<>>

\* the no-progress branch of the second loop for trike v, after its
\* tryOffload, calls the router
CallsRouterInFallback(W, v) ==
    \/ hasPassenger(W, v)
    \/ /\ ~W.T[v].isRoaming
       /\ nearestTerminalLoop(W, config.router, v, 1, None).nearest # None
    \/ W.T[v].isRoaming /\ W.T[v].roamPath # <<>>

\* first loop: the router fails during the turn of a trike; no handler is
\* around the first loop, the exception leaves process_frame and run
FirstLoopFault ==
    /\ pc \in {"offload", "enqueue", "load"}
    /\ tricycles[idx].active
    /\ CallsRouterInFirstLoop(idx)
    /\ pc' = "aborted"
    /\ UNCHANGED <<process, config, passengers, tricycles, terminals, map_passengers,
                   cur_time, last_active, idx>>

\* second loop: the router fails in the no-progress branch;
\* `except Exception` finishes the trip of the trike
SecondLoopFault ==
    /\ pc = "move"
    /\ tricycles[idx].active
    /\ LET r == moveTrike(World, idx, cur_time)
           off == tryOffload(r.W, config.router, idx, cur_time)
       IN /\ r.ret = 0
          /\ CallsRouterInFallback(off.W, idx)
          /\ Commit(finishTrip(off.W, idx, cur_time))
          /\ last_active' = IF off.ret # <<>> THEN cur_time ELSE last_active
    /\ NextInSecondLoop
    /\ UNCHANGED <<process, config, cur_time>>

FaultNext ==
    \/ Next
    \/ FirstLoopFault
    \/ SecondLoopFault

FaultSpec == Init /\ [][FaultNext]_vars

\* ------------------------------------------- the process-wide caches
\* The calls a process makes to the cache layer between its runs, with
\* their inputs drawn from bounded sets.
simulation == <<config, passengers, tricycles, terminals, map_passengers,
                cur_time, last_active, pc, idx>>

\* the onboard lists a scheduler may be given: their destinations
OnboardLists == UNION {[1..n -> Points] : n \in 1..MaxCapacity}

\* the fixedHotspots a run may be given (raw coordinates)
HotspotLists == {<<>>, <<300>>, <<900>>, <<300, 5000>>}

ProcessInit ==
    \E r \in Routers :
        /\ config = [isRealistic |-> TRUE, capacity |-> MaxCapacity, router |-> r]
        /\ tricycles = [v \in TrikeIds |->
               InitTrike(config, [isRoaming |-> FALSE, terminal |-> 1, hotspot |-> None])]
        /\ passengers = [p \in PassengerIds |->
               NewPassenger(PassengerKinds[3].src, PassengerKinds[3].dest, 0)]
        /\ terminals = [tm \in TerminalIds |->
               [location |-> TerminalLocation(tm),
                queue |-> IF tm = 1 THEN SeqOfIds(TrikeIds) ELSE <<>>,
                passengers |-> IF tm = 1 THEN SeqOfIds(PassengerIds) ELSE <<>>]]
        /\ map_passengers = <<>>
        /\ cur_time = 0
        /\ last_active = -1
        /\ pc = "done"
        /\ idx = 1
        /\ FreshProcess

\* a call of algos.get_distance
GetDistance ==
    /\ ops < MaxOps
    /\ \E p1, p2 \in Points :
        LET got == get_distance(dist_cache, config.router, p1, p2) IN
          /\ dist_cache' = got.dc
          /\ observed' = [NoCall EXCEPT !.op = "get_distance", !.p1 = p1, !.p2 = p2,
                                        !.ret = got.ret, !.calls = got.calls]
    /\ ops' = ops + 1
    /\ UNCHANGED <<cache, simulation>>

\* a call of the scheduler by Tricycle.scheduleNextPassenger: the trike at
\* src, its passengers' destinations dests
Schedule ==
    /\ ops < MaxOps
    /\ \E src \in Points, dests \in OnboardLists :
        LET sched == smart_scheduler(dist_cache, config.router, src, dests) IN
          /\ dist_cache' = sched.dc
          /\ observed' = [NoCall EXCEPT !.op = "schedule", !.p1 = src, !.dests = dests,
                                        !.start_index = sched.start_index,
                                        !.calls = sched.calls]
    /\ ops' = ops + 1
    /\ UNCHANGED <<cache, simulation>>

\* Simulator.__init__ and the start of Simulator.run: the hotspots of the run
StartRun ==
    /\ ops < MaxOps
    /\ \E fixedHotspots \in HotspotLists :
        LET hotspotsCache == cache
            validFixedHotspots == IF hotspotsCache # <<>> THEN hotspotsCache
                                  ELSE get_valid_points(fixedHotspots)
        IN /\ cache' = validFixedHotspots
           /\ observed' = [NoCall EXCEPT !.op = "run", !.fixedHotspots = fixedHotspots,
                                         !.validFixedHotspots = validFixedHotspots]
    /\ ops' = ops + 1
    /\ UNCHANGED <<dist_cache, simulation>>

\* the construction of a Simulator: the checks of its arguments
Construct ==
    /\ ops < MaxOps
    /\ \E a \in SimulatorArgs :
          observed' = [NoCall EXCEPT !.op = "construct", !.args = a,
                                     !.raised = ImproperConfig(a)]
    /\ ops' = ops + 1
    /\ UNCHANGED <<dist_cache, cache, simulation>>

ProcessNext ==
    \/ GetDistance
    \/ Schedule
    \/ StartRun
    \/ Construct

ProcessSpec == ProcessInit /\ [][ProcessNext]_vars

\* ------------------------------------------------- Tricycle.updatePath
\* Calls of updatePath on trikes in the middle of a run: a trike stands at a
\* point of the road with some points still to go, resolved from where it
\* was when they were added.
ToGoLists == {<<>>} \cup [1..1 -> Points] \cup [1..2 -> Points]

Priorities == {"replace", "front", "append"}

PathInit ==
    \E r \in Routers, cur \in Points, q \in ToGoLists :
        /\ config = [isRealistic |-> TRUE, capacity |-> MaxCapacity, router |-> r]
        /\ tricycles = [v \in TrikeIds |->
               [InitTrike(config, [isRoaming |-> FALSE, terminal |-> 1, hotspot |-> None])
                   EXCEPT !.path = <<cur>>, !.to_go = q]]
        /\ passengers = [p \in PassengerIds |->
               NewPassenger(PassengerKinds[3].src, PassengerKinds[3].dest, 0)]
        /\ terminals = [tm \in TerminalIds |->
               [location |-> TerminalLocation(tm),
                queue |-> <<>>,
                passengers |-> IF tm = 1 THEN SeqOfIds(PassengerIds) ELSE <<>>]]
        /\ map_passengers = <<>>
        /\ cur_time = 0
        /\ last_active = -1
        /\ pc = "done"
        /\ idx = 1
        /\ FreshProcess

\* a call of Tricycle.updatePath
UpdatePath ==
    /\ ops < MaxOps
    /\ \E v \in TrikeIds, new_destination \in Points, priority \in Priorities :
          LET up == updatePath(World, config.router, v, new_destination, priority) IN
            /\ tricycles' = up.W.T
            /\ observed' = [NoCall EXCEPT !.op = "updatePath", !.trike = v,
                                          !.p2 = new_destination,
                                          !.priority = priority,
                                          !.to_go = tricycles[v].to_go,
                                          !.ok = up.ret]
    /\ ops' = ops + 1
    /\ UNCHANGED <<dist_cache, cache, config, passengers, terminals, map_passengers,
                   cur_time, last_active, pc, idx>>

PathNext == UpdatePath

PathSpec == PathInit /\ [][PathNext]_vars

\* Start of a frame, or the end of the run.
TickBoundary == (pc = "offload" /\ idx = 1) \/ pc \in {"finish", "done"}

\* The first loop of process_frame as a whole, from trike v on: what the
\* actions FirstLoopSkip .. FirstLoopLoad do for every trike in turn.
RECURSIVE firstLoopFrom(_, _, _, _)
firstLoopFrom(W, router, v, now) ==
    IF v > NumTrikes THEN W
    ELSE IF ~W.T[v].active THEN firstLoopFrom(W, router, v + 1, now)
    ELSE LET off == tryOffload(W, router, v, now)
             enq == enqueueNearbyPassengers(off.W, router, v, now)
             ld == tryLoad(enq.W, router, v, now)
         IN firstLoopFrom(process_passengers(ld.W, ld.ret, now), router, v + 1, now)

\* ======================================================================
\* Claims
\* ======================================================================
IsIn(x, seq) == \E i \in 1..Len(seq) : seq[i] = x

Onboard(v) == SeqToSet(tricycles[v].passengers)

HasEvent(events, type) == \E i \in 1..Len(events) : events[i].type = type

\* C1: at every tick boundary no trike carries more passengers than its
\* capacity, whatever proximity loads, terminal loads and drop-offs happened.
C1_OnboardWithinCapacity ==
    TickBoundary =>
        \A v \in TrikeIds : Len(tricycles[v].passengers) <= tricycles[v].capacity

\* C1 witness: a trike is full at a tick boundary after its terminal refused
\* it a further passenger, who is still waiting in the terminal's queue.
C1_Witness ==
    /\ TickBoundary
    /\ \E v \in TrikeIds, tm \in TerminalIds :
        /\ Len(tricycles[v].passengers) = tricycles[v].capacity
        /\ HasEvent(tricycles[v].events, "LOAD")
        /\ terminals[tm].passengers # <<>>
        /\ passengers[tricycles[v].passengers[1]].src = terminals[tm].location

\* C2 as claimed: at every tick boundary onboard plus enqueued passengers of
\* a trike are at most its capacity.
C2_OnboardPlusEnqueuedWithinCapacity ==
    TickBoundary =>
        \A v \in TrikeIds :
            Len(tricycles[v].passengers) + Cardinality(tricycles[v].enqueued_passengers)
                <= tricycles[v].capacity

\* C3 as claimed: a passenger has a claiming trike exactly when it is
\* ENQUEUED or ONBOARD.
C3_ClaimedIffEnqueuedOrOnboard ==
    \A p \in PassengerIds :
        passengers[p].claimed_by # None <=> passengers[p].status \in {"ENQUEUED", "ONBOARD"}

\* C3 amended: a passenger has a claiming trike exactly when it is ENQUEUED,
\* ONBOARD or COMPLETED: the claim is kept through the drop-off and cleared
\* on RESET only.
C3_ClaimedIffEnqueuedOnboardOrCompleted ==
    \A p \in PassengerIds :
        passengers[p].claimed_by # None
            <=> passengers[p].status \in {"ENQUEUED", "ONBOARD", "COMPLETED"}

\* C3 witness: one passenger was dropped off and keeps its trike, another was
\* reset and has none.
C3_Witness ==
    \E p, q \in PassengerIds :
        /\ passengers[p].status = "COMPLETED" /\ passengers[p].claimed_by # None
        /\ passengers[q].status = "WAITING" /\ HasEvent(passengers[q].events, "RESET")
        /\ passengers[q].claimed_by = None

\* C4 as claimed: a passenger is in the enqueued set or the onboard list of
\* at most one trike, the trike named by its claimed_by.
C4_AtMostOneClaimer ==
    \A p \in PassengerIds : \A v \in TrikeIds :
        (p \in tricycles[v].enqueued_passengers \/ p \in Onboard(v))
            => passengers[p].claimed_by = v

\* ---- C5: claim contention
\* the trikes that recorded ENQUEUE(p) at time `now` in the world W
Recorders(W, p, now) ==
    {v \in TrikeIds : \E i \in 1..Len(W.T[v].events) :
        W.T[v].events[i] = Event("ENQUEUE", p, now)}

FreeRoom(v) ==
    tricycles[v].capacity
        - (Len(tricycles[v].passengers) + Cardinality(tricycles[v].enqueued_passengers))

\* the active trikes with free room within detection radius of passenger p
Contenders(p) ==
    {v \in TrikeIds :
        /\ tricycles[v].active
        /\ FreeRoom(v) > 0
        /\ haversine(Last(tricycles[v].path), passengers[p].src)
              <= DETECTION_RADIUS_METERS * 1000}

\* the WAITING passengers ahead of p in the registry, within detection radius of v
WaitingAhead(v, p) ==
    {q \in PassengerIds :
        /\ passengers[q].status = "WAITING"
        /\ \E i, j \in 1..Len(map_passengers) :
              i < j /\ map_passengers[i] = q /\ map_passengers[j] = p
        /\ haversine(Last(tricycles[v].path), passengers[q].src)
              <= DETECTION_RADIUS_METERS * 1000}

FirstOf(S) == CHOOSE v \in S : \A u \in S : v <= u

FrameStart == pc = "offload" /\ idx = 1

\* C5 as claimed: when two or more active trikes with free room are within
\* detection radius of a WAITING passenger at the start of a frame, exactly
\* one of them records ENQUEUE(p) in the frame: the first in registry order.
C5_FirstContenderEnqueues ==
    FrameStart =>
        \A p \in SeqToSet(map_passengers) :
            (passengers[p].status = "WAITING" /\ Cardinality(Contenders(p)) >= 2)
                => Recorders(firstLoopFrom(World, config.router, 1, cur_time), p, cur_time)
                      = {FirstOf(Contenders(p))}

\* C5 amended: under the same contention at most one trike records
\* ENQUEUE(p) in the frame, every other trike skips p; it is the first trike
\* of the registry when that trike is among the contenders and its free room
\* exceeds the number of WAITING passengers ahead of p in the registry within
\* its detection radius.
C5_AtMostOneContenderEnqueues ==
    FrameStart =>
        \A p \in SeqToSet(map_passengers) :
            (passengers[p].status = "WAITING" /\ Cardinality(Contenders(p)) >= 2)
                => LET rec == Recorders(firstLoopFrom(World, config.router, 1, cur_time),
                                        p, cur_time)
                       f == FirstOf(Contenders(p))
                   IN /\ Cardinality(rec) <= 1
                      /\ ((\A u \in TrikeIds : u < f => ~tricycles[u].active)
                            /\ FreeRoom(f) > Cardinality(WaitingAhead(f, p)))
                          => rec = {f}

\* C5 witness: two trikes with room contend for a WAITING passenger and the
\* first of the registry records the ENQUEUE.
C5_Witness ==
    /\ FrameStart
    /\ \E p \in SeqToSet(map_passengers) :
        /\ passengers[p].status = "WAITING"
        /\ Cardinality(Contenders(p)) >= 2
        /\ Recorders(firstLoopFrom(World, config.router, 1, cur_time), p, cur_time)
              = {FirstOf(Contenders(p))}

\* ---- C6: passenger lifecycle
LifecycleEdges ==
    {<<"WAITING", "ENQUEUED">>, <<"ENQUEUED", "ONBOARD">>,
     <<"ENQUEUED", "WAITING">>, <<"ONBOARD", "COMPLETED">>}

\* passenger p becomes ONBOARD in this step, in the trike that had claimed it
BoardsItsClaimer(p) ==
    /\ passengers[p].claimed_by # None
    /\ passengers'[p].claimed_by = passengers[p].claimed_by
    /\ IsIn(p, tricycles'[passengers[p].claimed_by].passengers)

\* passenger p of the queue of terminal idx becomes ONBOARD in this step, in
\* the trike at the head of the terminal's queue
BoardsAtTerminal(p) ==
    /\ pc = "terminals"
    /\ IsIn(p, terminals[idx].passengers)
    /\ ~IsIn(p, map_passengers)
    /\ terminals[idx].queue # <<>>
    /\ passengers'[p].claimed_by = Head(terminals[idx].queue)
    /\ IsIn(p, tricycles'[Head(terminals[idx].queue)].passengers)

\* C6 as claimed: every change of a passenger's status is an edge of the
\* lifecycle table, and a passenger becomes ONBOARD only from ENQUEUED and
\* only in the trike that claimed it.
C6_LifecycleEdgesOnly ==
    [][\A p \in PassengerIds :
          passengers'[p].status # passengers[p].status
            => /\ <<passengers[p].status, passengers'[p].status>> \in LifecycleEdges
               /\ passengers'[p].status = "ONBOARD" => BoardsItsClaimer(p)]_vars

\* C6 amended: every change of a passenger's status is an edge of the
\* lifecycle table or WAITING -> ONBOARD by terminal loading, which takes an
\* unclaimed passenger of the terminal's queue into the trike at the head of
\* the terminal's queue; everywhere else a passenger becomes ONBOARD only
\* from ENQUEUED and only in the trike that claimed it.
C6_LifecycleEdgesOrTerminalLoad ==
    [][\A p \in PassengerIds :
          passengers'[p].status # passengers[p].status
            => \/ /\ <<passengers[p].status, passengers'[p].status>> \in LifecycleEdges
                  /\ passengers'[p].status = "ONBOARD" => BoardsItsClaimer(p)
               \/ /\ <<passengers[p].status, passengers'[p].status>> = <<"WAITING", "ONBOARD">>
                  /\ BoardsAtTerminal(p)]_vars

\* C6 witness: one passenger was enqueued and then loaded, another was loaded
\* at a terminal without an ENQUEUE and dropped off, a third was reset.
C6_Witness ==
    \E p, q, r \in PassengerIds :
        /\ passengers[p].status \in {"ONBOARD", "COMPLETED"}
        /\ HasEvent(passengers[p].events, "ENQUEUE")
        /\ passengers[q].status = "COMPLETED"
        /\ ~HasEvent(passengers[q].events, "ENQUEUE")
        /\ HasEvent(passengers[r].events, "RESET")

\* ---- C7: trike status transitions
TricycleStatuses == {"IDLE", "SERVING", "TERMINAL", "ROAMING", "RETURNING_TO_TERMINAL"}

TransitionTable ==
    {<<"IDLE", "SERVING">>, <<"IDLE", "TERMINAL">>,
     <<"SERVING", "RETURNING_TO_TERMINAL">>, <<"SERVING", "ROAMING">>,
     <<"TERMINAL", "SERVING">>, <<"ROAMING", "SERVING">>,
     <<"RETURNING_TO_TERMINAL", "TERMINAL">>}

\* setStatus for a pair outside the table is refused: it returns False and
\* leaves the status and to_go as they were
RefusedOutsideTable ==
    \A v \in TrikeIds, s \in TricycleStatuses :
        <<tricycles[v].status, s>> \notin TransitionTable
            => LET r == setStatus(World, config.router, v, s)
               IN /\ r.ret = FALSE
                  /\ r.W.T[v].status = tricycles[v].status
                  /\ r.W.T[v].to_go = tricycles[v].to_go

\* C7: every change of a trike's status is an edge of the transition table,
\* and in every state setStatus for any other pair is refused, returns False
\* and leaves the status and the path queue unchanged.
C7_StatusChangesFollowTable ==
    /\ []RefusedOutsideTable
    /\ [][\A v \in TrikeIds :
            tricycles'[v].status # tricycles[v].status
              => <<tricycles[v].status, tricycles'[v].status>> \in TransitionTable]_vars

\* C7 witness: a trike that was RETURNING_TO_TERMINAL loaded a passenger, so
\* its setStatus(SERVING) was refused and it kept its status; another status
\* change to ROAMING has happened too.
C7_Witness ==
    \E v \in TrikeIds :
        /\ tricycles[v].status = "RETURNING_TO_TERMINAL"
        /\ tricycles[v].passengers # <<>>
        /\ HasEvent(tricycles[v].events, "LOAD")

\* ---- C8: a TERMINAL trike
\* C8 (first half): at every tick boundary a TERMINAL trike has an empty to_go.
C8_TerminalTrikeHasEmptyPath ==
    TickBoundary =>
        \A v \in TrikeIds : tricycles[v].status = "TERMINAL" => tricycles[v].to_go = <<>>

\* C8 (second half): moveTrike on a TERMINAL trike returns 0 and changes
\* nothing: not its position, path, distance counters nor events.
C8_TerminalTrikeDoesNotMove ==
    \A v \in TrikeIds :
        tricycles[v].status = "TERMINAL"
            => moveTrike(World, v, cur_time) = [W |-> World, ret |-> 0]

\* C8: both halves.
C8_TerminalTrikeIsStill ==
    C8_TerminalTrikeHasEmptyPath /\ C8_TerminalTrikeDoesNotMove

\* C8 witness: at a tick boundary a trike that made a trip and dropped its
\* passenger off is parked in a terminal again.
C8_Witness ==
    /\ TickBoundary
    /\ \E v \in TrikeIds, tm \in TerminalIds :
        /\ tricycles[v].status = "TERMINAL"
        /\ IsIn(v, terminals[tm].queue)
        /\ HasEvent(tricycles[v].events, "DROP-OFF")
        /\ tricycles[v].totalDistance > 0

\* ---- C9: enqueue timeout
\* passenger p has been ENQUEUED for more than max(60, 2*detection_radius/speed)
TimedOut(p) ==
    /\ passengers[p].status = "ENQUEUED"
    /\ passengers[p].claimed_by # None
    /\ cur_time - passengers[p].enqueueTime > 60
    /\ (cur_time - passengers[p].enqueueTime) * tricycles[passengers[p].claimed_by].speed1000
          > 2 * DETECTION_RADIUS_METERS * 1000

\* C9: the timeout check resets every timed-out passenger to WAITING with a
\* RESET event and no claimer, and afterwards the enqueued set of the trike
\* that had claimed it no longer contains it.
C9_TimeoutResetsAndReleases ==
    [][pc = "timeouts" =>
         \A p \in PassengerIds :
            TimedOut(p) =>
               /\ passengers'[p].status = "WAITING"
               /\ passengers'[p].claimed_by = None
               /\ passengers'[p].events
                    = Append(passengers[p].events,
                             Event("RESET", passengers[p].claimed_by, cur_time))
               /\ p \notin tricycles'[passengers[p].claimed_by].enqueued_passengers]_vars

\* C9 without its last part: the passenger is reset, whatever the trike holds.
C9_TimeoutResets ==
    [][pc = "timeouts" =>
         \A p \in PassengerIds :
            TimedOut(p) =>
               /\ passengers'[p].status = "WAITING"
               /\ passengers'[p].claimed_by = None
               /\ passengers'[p].events
                    = Append(passengers[p].events,
                             Event("RESET", passengers[p].claimed_by, cur_time))]_vars

\* ---- C10: the times of a passenger
\* C10: for a COMPLETED passenger, deathTime >= pickupTime >= createTime.
C10_CompletedTimesOrdered ==
    \A p \in PassengerIds :
        passengers[p].status = "COMPLETED"
            => /\ passengers[p].deathTime >= passengers[p].pickupTime
               /\ passengers[p].pickupTime >= passengers[p].createTime

\* C10 witness: a passenger loaded by proximity and one loaded at a terminal
\* are COMPLETED, one of them dropped off later than it was picked up.
C10_Witness ==
    \E p, q \in PassengerIds :
        /\ passengers[p].status = "COMPLETED"
        /\ HasEvent(passengers[p].events, "ENQUEUE")
        /\ passengers[p].deathTime > passengers[p].pickupTime
        /\ passengers[q].status = "COMPLETED"
        /\ ~HasEvent(passengers[q].events, "ENQUEUE")

\* ---- C11: the enqueue time
\* the time of the last event of the type in the log, -1 when there is none
LastEventTime(events, type) ==
    IF HasEvent(events, type)
    THEN events[CHOOSE i \in 1..Len(events) :
                   /\ events[i].type = type
                   /\ \A j \in (i + 1)..Len(events) : events[j].type # type].time
    ELSE -1

\* C11 as claimed: a passenger's enqueueTime is >= 0 if and only if its
\* status is ENQUEUED.
C11_EnqueueTimeIffEnqueued ==
    \A p \in PassengerIds :
        passengers[p].enqueueTime >= 0 <=> passengers[p].status = "ENQUEUED"

\* C11 amended: an ENQUEUED passenger has enqueueTime >= 0; enqueueTime is
\* >= 0 if and only if the passenger has been enqueued at least once, and it
\* is the time of its latest ENQUEUE, kept after LOAD, RESET and DROP-OFF.
C11_EnqueueTimeIsLastEnqueue ==
    \A p \in PassengerIds :
        /\ passengers[p].status = "ENQUEUED" => passengers[p].enqueueTime >= 0
        /\ passengers[p].enqueueTime >= 0 <=> HasEvent(passengers[p].events, "ENQUEUE")
        /\ passengers[p].enqueueTime = LastEventTime(passengers[p].events, "ENQUEUE")

\* C11 witness: a passenger that was reset, one that was loaded after its
\* ENQUEUE and dropped off, and one loaded at a terminal without any ENQUEUE.
C11_Witness ==
    \E p, q, r \in PassengerIds :
        /\ passengers[p].status = "WAITING" /\ HasEvent(passengers[p].events, "RESET")
        /\ passengers[p].enqueueTime >= 0
        /\ passengers[q].status \in {"ONBOARD", "COMPLETED"} /\ passengers[q].enqueueTime >= 0
        /\ passengers[r].status \in {"ONBOARD", "COMPLETED"} /\ passengers[r].enqueueTime = -1

\* ---- C12: the event logs
IsPrefix(old, new) ==
    /\ Len(old) <= Len(new)
    /\ \A i \in 1..Len(old) : new[i] = old[i]

MonotoneInTime(events) ==
    \A i, j \in 1..Len(events) : i < j => events[i].time <= events[j].time

\* the last event, a MOVE, has its count raised by one; nothing else changes
Coalesced(old, new) ==
    /\ old # <<>>
    /\ Last(old).type = "MOVE"
    /\ new = [old EXCEPT ![Len(old)].data = @ + 1]

EventLogsMonotone ==
    /\ \A v \in TrikeIds : MonotoneInTime(tricycles[v].events)
    /\ \A p \in PassengerIds : MonotoneInTime(passengers[p].events)

\* C12 as claimed: every step only appends to the event logs, no recorded
\* event is removed or rewritten, and every log is non-decreasing in time.
C12_EventLogsAppendOnly ==
    /\ []EventLogsMonotone
    /\ [][/\ \A v \in TrikeIds : IsPrefix(tricycles[v].events, tricycles'[v].events)
          /\ \A p \in PassengerIds : IsPrefix(passengers[p].events, passengers'[p].events)]_vars

\* C12 amended: every step only appends to the event logs, except that a
\* move raises the count of the trike's last event when that is a MOVE
\* instead of appending another; every log is non-decreasing in time.
C12_EventLogsAppendOrCoalesce ==
    /\ []EventLogsMonotone
    /\ [][/\ \A v \in TrikeIds :
                \/ IsPrefix(tricycles[v].events, tricycles'[v].events)
                \/ /\ pc = "move" /\ idx = v
                   /\ Coalesced(tricycles[v].events, tricycles'[v].events)
          /\ \A p \in PassengerIds : IsPrefix(passengers[p].events, passengers'[p].events)]_vars

\* C12 witness: a trike's log holds a MOVE that counts two moves or more; a
\* passenger's log holds events of different times.
C12_Witness ==
    \E v \in TrikeIds, p \in PassengerIds :
        /\ \E i \in 1..Len(tricycles[v].events) :
              /\ tricycles[v].events[i].type = "MOVE"
              /\ tricycles[v].events[i].data >= 2
        /\ Last(passengers[p].events).time > passengers[p].events[1].time

\* ---- C13: the distances
DistancesOrdered ==
    \A v \in TrikeIds :
        /\ tricycles[v].totalDistance >= tricycles[v].totalProductiveDistance
        /\ tricycles[v].totalProductiveDistance >= 0
        /\ tricycles[v].totalDistanceM >= tricycles[v].totalProductiveDistanceM
        /\ tricycles[v].totalProductiveDistanceM >= 0

\* C13: totalDistance >= totalProductiveDistance >= 0 always, and the
\* productive distance changes only in the move of a trike that has a
\* passenger onboard, by the distance travelled in that move.
C13_ProductiveDistance ==
    /\ []DistancesOrdered
    /\ [][\A v \in TrikeIds :
            tricycles'[v].totalProductiveDistance # tricycles[v].totalProductiveDistance
              => /\ pc = "move" /\ idx = v
                 /\ tricycles[v].passengers # <<>>
                 /\ tricycles'[v].totalProductiveDistance - tricycles[v].totalProductiveDistance
                      = get_euclidean_distance(Last(tricycles[v].path), Last(tricycles'[v].path))
                 /\ tricycles'[v].totalDistance - tricycles[v].totalDistance
                      = get_euclidean_distance(Last(tricycles[v].path), Last(tricycles'[v].path))
                 /\ tricycles'[v].totalProductiveDistance > tricycles[v].totalProductiveDistance]_vars

\* C13 witness: a trike has moved with a passenger onboard and without.
C13_Witness ==
    \E v \in TrikeIds :
        /\ tricycles[v].totalProductiveDistance > 0
        /\ tricycles[v].totalDistance > tricycles[v].totalProductiveDistance

\* ---- C14: roaming progress
\* an active roaming trike in status ROAMING with a roam cycle
RoamingOnCycle(v) ==
    /\ tricycles[v].active
    /\ tricycles[v].isRoaming
    /\ tricycles[v].status = "ROAMING"
    /\ tricycles[v].roamPath # <<>>

\* updatePath accepts the route from point a to point b
RouteAccepted(a, b) ==
    LET found == find_path_between_points_in_osrm(config.router, a, b)
    IN ~found.noroute /\ Len(found.path) + 1 >= 3

NextCyclePoint(v) == getNextPoint(tricycles[v].roamPath, Last(tricycles[v].path))

InOrder4(events, t1, t2, t3, t4) ==
    \E i, j, k, l \in 1..Len(events) :
        /\ i < j /\ j < k /\ k < l
        /\ events[i].type = t1 /\ events[j].type = t2
        /\ events[k].type = t3 /\ events[l].type = t4

\* the trike's log holds LOAD(p), then a MOVE, then DROP-OFF(p)
MovedBetweenLoadAndDropoff(v, p) ==
    \E a, b, c \in 1..Len(tricycles[v].events) :
        /\ a < b /\ b < c
        /\ tricycles[v].events[a].type = "LOAD" /\ tricycles[v].events[a].data = p
        /\ tricycles[v].events[b].type = "MOVE"
        /\ tricycles[v].events[c].type = "DROP-OFF" /\ tricycles[v].events[c].data = p

\* passenger p was created on the road (in the map), not in a terminal's queue
OnTheRoad(p) == IsIn(p, map_passengers) \/ HasEvent(passengers[p].events, "ENQUEUE")

\* trike v is active when the run starts, at the point where p waits
StartsAt(v, p) ==
    /\ tricycles[v].isRoaming
    /\ tricycles[v].path[1] = passengers[p].src

FirstActive(v) ==
    /\ tricycles[v].active
    /\ \A u \in TrikeIds : u < v => ~tricycles[u].active

\* C15 amended, the pickup: at the start of a frame, a WAITING passenger of
\* the map within pickup radius of the first active trike of the registry,
\* whose free room exceeds the number of WAITING passengers ahead of it
\* within the trike's detection radius, is enqueued by that trike and loaded
\* into it in the first loop of that frame.
PickedUpInTheFrame ==
    FrameStart =>
        \A p \in SeqToSet(map_passengers), v \in TrikeIds :
            (/\ passengers[p].status = "WAITING"
             /\ FirstActive(v)
             /\ haversine(Last(tricycles[v].path), passengers[p].src)
                   <= PICKUP_RADIUS_METERS * 1000
             /\ FreeRoom(v) > Cardinality(WaitingAhead(v, p)))
              => LET W == firstLoopFrom(World, config.router, 1, cur_time)
                     n == Len(W.P[p].events)
                 IN /\ W.P[p].status = "ONBOARD"
                    /\ W.P[p].claimed_by = v
                    /\ IsIn(p, W.T[v].passengers)
                    /\ ~IsIn(p, W.M)
                    /\ W.P[p].events[n - 1] = Event("ENQUEUE", v, cur_time)
                    /\ W.P[p].events[n] = Event("LOAD", v, cur_time)

\* C15 amended, the log: a COMPLETED passenger of the road has APPEAR,
\* ENQUEUE, LOAD, DROP-OFF in this order in its log and no MOVE; the trike's
\* log has a MOVE between its LOAD and its DROP-OFF when the destination is
\* farther from the source than the pickup and drop-off radii together.
CompletedLogInOrder ==
    \A p \in PassengerIds :
        /\ ~HasEvent(passengers[p].events, "MOVE")
        /\ (passengers[p].status = "COMPLETED" /\ OnTheRoad(p))
              => /\ InOrder4(passengers[p].events, "APPEAR", "ENQUEUE", "LOAD", "DROP-OFF")
                 /\ haversine(passengers[p].src, passengers[p].dest)
                        > (PICKUP_RADIUS_METERS + DROPOFF_RADIUS_METERS) * 1000
                      => MovedBetweenLoadAndDropoff(passengers[p].claimed_by, p)

\* C15 amended, the completion in the case of E1: the passenger that a trike
\* loads first, at time 0, with an accepted route to its destination, is
\* COMPLETED at the end of the run.
FirstLoadedIsCompleted ==
    pc = "done" =>
        \A p \in PassengerIds, v \in TrikeIds :
            (/\ OnTheRoad(p)
             /\ passengers[p].pickupTime = 0
             /\ passengers[p].claimed_by = v
             /\ \E a \in 1..Len(tricycles[v].events) :
                   /\ tricycles[v].events[a] = Event("LOAD", p, 0)
                   /\ \A b \in 1..(a - 1) : tricycles[v].events[b].type # "LOAD"
             /\ RouteAccepted(passengers[p].src, passengers[p].dest))
              => passengers[p].status = "COMPLETED"

RoadDistance(a, b) ==
    LET found == find_path_between_points_in_osrm(config.router, a, b)
    IN IF found.noroute THEN inf ELSE getDistance(found.path \o <<b>>)

\* the total chained road distance from src through the destinations
RECURSIVE ChainedRoadDistance(_, _)
ChainedRoadDistance(src, dests) ==
    IF dests = <<>> THEN 0
    ELSE LET leg == RoadDistance(src, Head(dests))
             rest == ChainedRoadDistance(Head(dests), Tail(dests))
         IN IF leg = inf \/ rest = inf THEN inf ELSE leg + rest

\* the index (from 0) that heads the earliest permutation of least total
\* chained road distance
BestStartIndex(src, dests) ==
    LET with_index == [i \in 1..Len(dests) |-> [index |-> i - 1, dest |-> dests[i]]]
        orders == permutations(with_index)
        total(k) == ChainedRoadDistance(src, [i \in 1..Len(dests) |-> orders[k][i].dest])
        best == CHOOSE k \in 1..Len(orders) :
                   /\ \A j \in 1..Len(orders) : ~LessThan(total(j), total(k))
                   /\ \A j \in 1..(k - 1) : LessThan(total(k), total(j))
    IN orders[best][1].index

\* C16: the index the scheduler returns for a position and a non-empty
\* onboard list is that of the first passenger of the earliest permutation
\* with the least total chained road distance, an unavailable leg counting
\* as infinity.
C16_BruteForceScheduler ==
    observed.op = "schedule" =>
        observed.start_index = BestStartIndex(observed.p1, observed.dests)

\* ---- C17: FIFO drop order
\* the passengers trike v drops in the step
Dropped(v) == SeqToSet(tricycles[v].passengers) \ SeqToSet(tricycles[v].passengers')

\* the passengers of trike v whose destination is within the drop-off radius
\* of its position
WithinDropoffRadius(v) ==
    {p \in SeqToSet(tricycles[v].passengers) :
        haversine(Last(tricycles[v].path), passengers[p].dest)
            <= DROPOFF_RADIUS_METERS * 1000}

\* without a scheduler, scheduleNextPassenger takes the passenger at index 0
\* of a non-empty onboard list: it returns that passenger, the path queue
\* then ending at its destination, or None when the route to its destination
\* is not accepted
TargetsIndexZero ==
    \A v \in TrikeIds :
        tricycles[v].passengers # <<>> =>
            LET head == tricycles[v].passengers[1]
                r == scheduleNextPassenger(World, config.router, v)
            IN /\ ~r.raised
               /\ r.ret \in {None, head}
               /\ r.ret = head <=>
                     RouteAccepted(Last(tricycles[v].path), passengers[head].dest)
               /\ r.ret = head =>
                     /\ r.W.T[v].to_go # <<>>
                     /\ Last(r.W.T[v].to_go) = passengers[head].dest

SecondLookup ==
    /\ observed.op = "get_distance" /\ observed'.op = "get_distance"
    /\ observed'.p1 = observed.p1 /\ observed'.p2 = observed.p2

\* C19: a second lookup of a pair of points returns what the first returned
\* and makes no call to the router, whether a path was found or not.
C19_CacheRoundTrip ==
    [][SecondLookup => observed'.ret = observed.ret /\ observed'.calls = 0]_vars

\* the part of C19 that holds: a second lookup of a pair returns what the
\* first returned, and makes no call to the router when that was a path
C19_FoundPathRoundTrip ==
    [][SecondLookup =>
          /\ observed'.ret = observed.ret
          /\ ~observed.ret.noroute => observed'.calls = 0]_vars

\* ---- C20: seed determinism
\* what the call observed yields in a process that has made no call before
InFreshProcess ==
    LET empty == [k \in {} |-> NoPath]
    IN [observed EXCEPT
          !.validFixedHotspots =
              IF observed.op = "run" THEN get_valid_points(observed.fixedHotspots) ELSE @,
          !.start_index =
              IF observed.op = "schedule"
              THEN smart_scheduler(empty, config.router, observed.p1, observed.dests).start_index
              ELSE @]

\* C20: what a run takes from the process, its valid hotspots and the
\* passenger its scheduler picks for a position and an onboard list, is what
\* the same run takes in a fresh process, whatever ran before it.
C20_SeedDeterminism ==
    observed.op \in {"run", "schedule"} =>
        /\ observed.validFixedHotspots = InFreshProcess.validFixedHotspots
        /\ observed.start_index = InFreshProcess.start_index

\* the two halves of C20, each of which fails
C20_SameHotspots ==
    observed.op = "run" => observed.validFixedHotspots = InFreshProcess.validFixedHotspots

C20_SameSchedule ==
    observed.op = "schedule" => observed.start_index = InFreshProcess.start_index

\* ---- C21: per-tick ordering
\* the WAITING passengers of the map that trike v may claim: within its
\* detection radius and claimed by nobody else
Claimable(v) ==
    SelectSeq(map_passengers,
              LAMBDA p : /\ passengers[p].status = "WAITING"
                         /\ passengers[p].claimed_by \in {None, v}
                         /\ haversine(Last(tricycles[v].path), passengers[p].src)
                               <= DETECTION_RADIUS_METERS * 1000)

\* the turn of an active trike in the first loop is tryOffload, then the
\* enqueue, then the load, and then the next trike's turn or the second loop
PhasesInOrder ==
    /\ (pc = "offload" /\ tricycles[idx].active) => (pc' = "enqueue" /\ idx' = idx)
    /\ pc = "enqueue" => (pc' = "load" /\ idx' = idx)
    /\ pc = "load" => \/ pc' = "offload" /\ idx' = idx + 1
                      \/ pc' = "move" /\ idx = NumTrikes /\ idx' = 1
    /\ pc = "move" => pc' \in {"move", "terminals"}

\* what a step does tells its phase: a passenger is claimed in the enqueue,
\* leaves the map in the load, and a trike changes place in the second loop
EffectsInPhase ==
    /\ \A p \in PassengerIds :
          /\ (passengers'[p].status = "ENQUEUED" /\ passengers[p].status # "ENQUEUED")
                => pc = "enqueue"
          /\ (IsIn(p, map_passengers) /\ ~IsIn(p, map_passengers')) => pc = "load"
    /\ \A v \in TrikeIds :
          /\ tricycles'[v].path # tricycles[v].path => (pc = "move" /\ idx = v)
          /\ Dropped(v) # {} => (pc \in {"offload", "move"} /\ idx = v)

\* a trike at capacity with no claim of its own that is within drop-off radius
\* of an onboard passenger's destination, at its turn of the first loop,
\* drops that passenger and claims in the same turn the first passenger it
\* may claim
ClaimsInTheTickOfTheDrop ==
    \A v \in TrikeIds :
        (/\ pc = "offload" /\ idx = v /\ tricycles[v].active
         /\ Len(tricycles[v].passengers) = tricycles[v].capacity
         /\ tricycles[v].enqueued_passengers = {}
         /\ WithinDropoffRadius(v) # {}
         /\ Claimable(v) # <<>>)
          => LET off == tryOffload(World, config.router, v, cur_time)
                 enq == enqueueNearbyPassengers(off.W, config.router, v, cur_time)
                 p == Claimable(v)[1]
             IN /\ SeqToSet(off.ret) = WithinDropoffRadius(v)
                /\ enq.ret # <<>> /\ enq.ret[1] = p
                /\ Len(enq.ret) = Min(Len(off.ret), Len(Claimable(v)))
                /\ enq.W.P[p].status = "ENQUEUED"
                /\ enq.W.P[p].claimed_by = v
                /\ Last(enq.W.P[p].events) = Event("ENQUEUE", v, cur_time)

\* C21: in a tick an active trike's tryOffload runs before its enqueue,
\* which runs before its load, and all of these before any trike moves; a
\* trike at capacity that drops a passenger claims a WAITING passenger in the
\* same tick.
C21_PerTickOrdering ==
    /\ [][PhasesInOrder /\ EffectsInPhase]_vars
    /\ []ClaimsInTheTickOfTheDrop

\* C21 witness: a trike of capacity 1 has recorded, at the same time, the
\* DROP-OFF of the passenger it carried and then the ENQUEUE of another.
C21_Witness ==
    \E v \in TrikeIds, p, q \in PassengerIds :
        /\ p # q
        /\ tricycles[v].capacity = 1
        /\ \E i, j \in 1..Len(tricycles[v].events) :
              /\ i < j
              /\ tricycles[v].events[i].type = "DROP-OFF"
              /\ tricycles[v].events[i].data = q
              /\ tricycles[v].events[j].type = "ENQUEUE"
              /\ tricycles[v].events[j].data = p
              /\ tricycles[v].events[j].time = tricycles[v].events[i].time
        /\ passengers[p].claimed_by = v
        /\ passengers[q].status = "COMPLETED"

\* ---- C22: fault isolation
\* C22: when the servicing of a trike raises an exception at any point of a
\* tick, the run is not aborted, and the trike is finished (inactive, FINISH
\* recorded) while the tick goes on with the next trike or the terminals.
C22_FaultIsolation ==
    /\ [](pc # "aborted")
    /\ [][SecondLoopFault =>
             /\ ~tricycles'[idx].active
             /\ Last(tricycles'[idx].events) = Event("FINISH", None, cur_time)
             /\ pc' \in {"move", "terminals"}
             /\ cur_time' = cur_time]_vars

\* the part of C22 that holds: a fault in the second loop (the move and what
\* follows a move without progress) finishes the trike and the tick goes on
C22_SecondLoopFaultIsolated ==
    [][SecondLoopFault =>
          /\ ~tricycles'[idx].active
          /\ Last(tricycles'[idx].events) = Event("FINISH", None, cur_time)
          /\ pc' \in {"move", "terminals"}
          /\ \A v \in TrikeIds \ {idx} : tricycles'[v] = tricycles[v]]_vars

\* ---- C23: the clock and the end of the tick loop
\* the step the clock takes in the run's mode
StepOfMode == IF config.isRealistic THEN 1 ELSE MS_PER_FRAME

\* the places of a frame, in the order the frame visits them; a terminal's
\* while loop is at a later place after each load
PlacesPerTerminal == Cardinality(PassengerIds) + 1
PlacesPerFrame == 4 * NumTrikes + NumTerminals * PlacesPerTerminal + 2

PlaceInFrame ==
    CASE pc = "offload" -> 3 * (idx - 1)
      [] pc = "enqueue" -> 3 * (idx - 1) + 1
      [] pc = "load" -> 3 * (idx - 1) + 2
      [] pc = "move" -> 3 * NumTrikes + (idx - 1)
      [] pc = "terminals" ->
            4 * NumTrikes + (idx - 1) * PlacesPerTerminal
              + (Cardinality(PassengerIds) - Len(terminals[idx].passengers))
      [] pc = "timeouts" -> 4 * NumTrikes + NumTerminals * PlacesPerTerminal
      [] pc = "advance" -> 4 * NumTrikes + NumTerminals * PlacesPerTerminal + 1
      [] OTHER -> 0

\* how far the run is: the ticks done and the place in the current frame
Progress ==
    IF pc = "done" THEN (cur_time \div StepOfMode) * PlacesPerFrame + 1
    ELSE (cur_time \div StepOfMode) * PlacesPerFrame + PlaceInFrame

\* C23: the clock changes only at the end of a tick, by 1 in realistic mode
\* and by MS_PER_FRAME otherwise; no part of a tick is processed at a time
\* >= maxTime; every step of the run takes it further and the run is over
\* after at most the ticks maxTime allows, at a time >= maxTime.
C23_ClockAndTermination ==
    /\ [][/\ cur_time' # cur_time =>
                (pc = "advance" /\ cur_time' = cur_time + StepOfMode)
          /\ Progress' > Progress]_vars
    /\ [](/\ pc \notin {"finish", "done"} => cur_time < maxTime
          /\ pc \in {"finish", "done"} =>
                (cur_time >= maxTime /\ cur_time - StepOfMode < maxTime)
          /\ Progress <= (maxTime \div StepOfMode + 1) * PlacesPerFrame + 1)

\* C23 witness: the run is over in the mode whose clock step is MS_PER_FRAME,
\* the clock at maxTime after MaxTicks ticks, a terminal having loaded twice
\* in one tick.
C23_Witness ==
    /\ pc = "done"
    /\ ~config.isRealistic
    /\ cur_time = MaxTicks * MS_PER_FRAME
    /\ \E v, u \in TrikeIds :
          /\ v # u
          /\ \E i \in 1..Len(tricycles[v].events), j \in 1..Len(tricycles[u].events) :
                /\ tricycles[v].events[i].type = "LOAD"
                /\ tricycles[u].events[j].type = "LOAD"
                /\ tricycles[v].events[i].time = 0
                /\ tricycles[u].events[j].time = 0
          /\ ~tricycles[v].isRoaming /\ ~tricycles[u].isRoaming

\* ---- C24: finishTrip is irreversible
Finished(v) == HasEvent(tricycles[v].events, "FINISH")

\* C24: a trike that has recorded FINISH is inactive and in no terminal's
\* queue, and stays so: no later step makes it active, moves it, or changes
\* its passengers, its claims or its log.
C24_FinishIsIrreversible ==
    /\ [](\A v \in TrikeIds :
            Finished(v) =>
                /\ ~tricycles[v].active
                /\ \A tm \in TerminalIds : ~IsIn(v, terminals[tm].queue))
    /\ [][\A v \in TrikeIds :
            Finished(v) =>
                /\ ~tricycles'[v].active
                /\ tricycles'[v].path = tricycles[v].path
                /\ tricycles'[v].to_go = tricycles[v].to_go
                /\ tricycles'[v].passengers = tricycles[v].passengers
                /\ tricycles'[v].enqueued_passengers = tricycles[v].enqueued_passengers
                /\ tricycles'[v].events = tricycles[v].events
                /\ tricycles'[v].status = tricycles[v].status]_vars

\* C24 witness: the run is over; a trike finished its trip and, later, a
\* terminal popped another trike, which recorded events after that.
C24_Witness ==
    /\ pc = "done"
    /\ \E v, u \in TrikeIds :
        /\ v # u
        /\ Finished(v)
        /\ ~tricycles[u].isRoaming /\ tricycles[u].active
        /\ \E i \in 1..Len(tricycles[u].events) :
              /\ tricycles[u].events[i].type = "LOAD"
              /\ tricycles[u].events[i].time > Last(tricycles[v].events).time


\* C25: the construction rejects (ImproperConfig) every configuration whose
\* given terminal passenger distribution or given terminal trike distribution
\* has a length other than the number of terminals, and accepts a given
\* distribution whose length is the number of terminals (the other checks of
\* the constructor passing).
Given(n) == n # 0

OtherChecksPass(a) ==
    /\ a.totalTerminals >= 0
    /\ a.totalPassengers >= 0
    /\ a.totalTrikes >= 0
    /\ (a.totalTerminals = 0 => a.roamingTrikeChance = 1000)

C25_DistribLengths ==
    (observed.op = "construct" /\ OtherChecksPass(observed.args)) =>
        LET a == observed.args IN
          observed.raised <=>
              \/ Given(a.terminalPassengerDistrib)
                   /\ a.terminalPassengerDistrib # a.totalTerminals
              \/ Given(a.terminalTrikeDistrib)
                   /\ a.terminalTrikeDistrib # a.totalTerminals

\* C25, the passenger half: a given passenger distribution is rejected
\* exactly when its length is not the number of terminals (the trike
\* distribution not given).
C25_PassengerDistribLength ==
    (/\ observed.op = "construct"
     /\ OtherChecksPass(observed.args)
     /\ ~Given(observed.args.terminalTrikeDistrib)) =>
        (observed.raised <=>
            /\ Given(observed.args.terminalPassengerDistrib)
            /\ observed.args.terminalPassengerDistrib # observed.args.totalTerminals)


\* C26: at termination every trike's waiting time is
\* last_active - totalDistance / speed clamped to be at least 0, so it is never
\* negative, also in a run without a drop-off.  The model keeps the waiting
\* time multiplied by the speed (speed1000), which leaves its sign and the
\* equation unchanged.
TravelledTimesSpeed(v) ==
    IF tricycles[v].useMeters THEN tricycles[v].totalDistance
    ELSE tricycles[v].totalDistance * 1000

UnclampedWaitingTime(v) ==
    last_active * tricycles[v].speed1000 - TravelledTimesSpeed(v)

C26_ClampedWaitingTime ==
    pc = "done" =>
        \A v \in TrikeIds :
            /\ tricycles[v].waitingTime >= 0
            /\ tricycles[v].waitingTime =
                   IF UnclampedWaitingTime(v) < 0 THEN 0 ELSE UnclampedWaitingTime(v)

\* C26 as the code has it: the waiting time is
\* last_active - totalDistance / speed without a clamp; in a realistic run
\* without a drop-off last_active ends at 0 and the waiting time of every
\* trike that moved is negative.
NoDropoffInTheRun == \A p \in PassengerIds : passengers[p].status # "COMPLETED"

C26_UnclampedWaitingTime ==
    pc = "done" =>
        \A v \in TrikeIds :
            /\ tricycles[v].waitingTime = UnclampedWaitingTime(v)
            /\ tricycles[v].deathTime = last_active
            /\ (NoDropoffInTheRun /\ config.isRealistic) =>
                  /\ last_active = 0
                  /\ (tricycles[v].totalDistance > 0 => tricycles[v].waitingTime < 0)

C26_Witness ==
    /\ pc = "done"
    /\ NoDropoffInTheRun
    /\ \E v \in TrikeIds :
          /\ tricycles[v].totalDistance > 0
          /\ tricycles[v].waitingTime < 0
    /\ \E v \in TrikeIds : tricycles[v].waitingTime > 0


\* C27: a passenger leaves the registry of the map exactly in the step in
\* which a trike loads it, nothing is ever added to the registry, so the
\* registry holds only WAITING and ENQUEUED passengers; no trike ever leaves
\* the set of trikes.
LoadedInThisStep(p) ==
    \E v \in TrikeIds :
        /\ ~IsIn(p, tricycles[v].passengers)
        /\ IsIn(p, tricycles'[v].passengers)

RegistryStep ==
    /\ \A p \in PassengerIds :
          /\ IsIn(p, map_passengers) =>
                (~IsIn(p, map_passengers') <=> LoadedInThisStep(p))
          /\ ~IsIn(p, map_passengers) => ~IsIn(p, map_passengers')
    /\ DOMAIN tricycles' = DOMAIN tricycles

RegistryHoldsUnboarded ==
    \A p \in SeqToSet(map_passengers) :
        passengers[p].status \in {"WAITING", "ENQUEUED"}

C27_Registry == []RegistryHoldsUnboarded /\ [][RegistryStep]_vars

\* C27 witness: a passenger picked up on the road is on board and out of the
\* registry while another passenger is still in the registry.
C27_Witness ==
    \E p, q \in PassengerIds :
        /\ HasEvent(passengers[p].events, "ENQUEUE")
        /\ passengers[p].status = "ONBOARD"
        /\ ~IsIn(p, map_passengers)
        /\ IsIn(q, map_passengers)
        /\ passengers[q].status = "ENQUEUED"


\* C28: after every successful load of a passenger (tryLoad, or the head of
\* a terminal's line) the trike is SERVING, so at the start of every frame
\* every trike with somebody on board is SERVING, whatever its status was
\* before the load.
TookOnBoard(v) ==
    \E p \in PassengerIds :
        /\ ~IsIn(p, tricycles[v].passengers)
        /\ IsIn(p, tricycles'[v].passengers)

ServingAfterLoad ==
    \A v \in TrikeIds : TookOnBoard(v) => tricycles'[v].status = "SERVING"

CarriersServeAtFrameStart ==
    FrameStart =>
        \A v \in TrikeIds :
            tricycles[v].passengers # <<>> => tricycles[v].status = "SERVING"

C28_ServingAfterLoad == []CarriersServeAtFrameStart /\ [][ServingAfterLoad]_vars


\* C28, the part that holds: a trike that takes a passenger on board while
\* IDLE, TERMINAL, ROAMING or SERVING is SERVING after the load.
C28_ServingUnlessReturning ==
    [][\A v \in TrikeIds :
          (TookOnBoard(v) /\ tricycles[v].status # "RETURNING_TO_TERMINAL")
              => tricycles'[v].status = "SERVING"]_vars


\* C29: tryLoad calls scheduleNextPassenger only when nobody was on board
\* before the load, so a tryLoad that loads a further passenger into a trike
\* that already carries one leaves to_go unchanged.
LoadOfTheFrame == tryLoad(World, config.router, idx, cur_time)

C29_FurtherLoadKeepsPath ==
    (/\ pc = "load"
     /\ tricycles[idx].passengers # <<>>
     /\ LoadOfTheFrame.ret # <<>>)
        => LoadOfTheFrame.W.T[idx].to_go = tricycles[idx].to_go


\* C29 as the code has it: tryLoad calls scheduleNextPassenger after every
\* successful load, whether or not somebody was on board before.  After a
\* tryLoad that loaded somebody, to_go is the road path to the destination of
\* the first passenger on board (without its first point, ending in the
\* destination), unless no path of three points was found or to_go already
\* ended in that destination, and then to_go is unchanged.
ScheduledTarget == passengers[LoadOfTheFrame.W.T[idx].passengers[1]].dest

ScheduledRoute ==
    find_path_between_points_in_osrm(config.router, Last(tricycles[idx].path),
                                     ScheduledTarget)

C29_EveryLoadSchedules ==
    (pc = "load" /\ LoadOfTheFrame.ret # <<>>) =>
        LoadOfTheFrame.W.T[idx].to_go =
            IF \/ ScheduledRoute.noroute
               \/ Len(ScheduledRoute.path) + 1 < 3
               \/ /\ tricycles[idx].to_go # <<>>
                  /\ Last(tricycles[idx].to_go) = ScheduledTarget
            THEN tricycles[idx].to_go
            ELSE Tail(ScheduledRoute.path \o <<ScheduledTarget>>)

\* C29 witness: a trike that carries a passenger loads a further one and its
\* to_go is replaced.
C29_Witness ==
    /\ pc = "load"
    /\ tricycles[idx].passengers # <<>>
    /\ LoadOfTheFrame.ret # <<>>
    /\ LoadOfTheFrame.W.T[idx].to_go # tricycles[idx].to_go


\* C30: updatePath, when it succeeds and to_go does not end in the target,
\* sets to_go to P ('replace'), to P followed by the old to_go ('front') or
\* to the old to_go followed by P ('append'), P being the road path without
\* its first point and ending in the target; when to_go already ends in the
\* target it returns True and leaves to_go unchanged for every priority.
OldToGo == observed.to_go

NewToGo == tricycles[observed.trike].to_go

Target == observed.p2

Resolved ==
    find_path_between_points_in_osrm(config.router,
                                     Last(tricycles[observed.trike].path), Target)

ResolvedP == Tail(Resolved.path \o <<Target>>)

EndsInTarget == OldToGo # <<>> /\ Last(OldToGo) = Target

ByPriority ==
    NewToGo = CASE observed.priority = "replace" -> ResolvedP
                [] observed.priority = "front" -> ResolvedP \o OldToGo
                [] OTHER -> OldToGo \o ResolvedP

C30_UpdatePath ==
    observed.op = "updatePath" =>
        IF EndsInTarget
        THEN observed.ok /\ NewToGo = OldToGo
        ELSE observed.ok => ByPriority

\* C30 as the code has it: the router is asked first.  When it reports no
\* route or the path with the target added has fewer than three points,
\* updatePath returns False and leaves to_go unchanged, also when to_go
\* already ends in the target; otherwise it returns True, with to_go
\* unchanged when it ends in the target and set by the priority when not.
Routed == ~Resolved.noroute /\ Len(Resolved.path) + 1 >= 3

C30_UpdatePathRoutesFirst ==
    observed.op = "updatePath" =>
        /\ observed.ok <=> Routed
        /\ IF EndsInTarget \/ ~observed.ok
           THEN NewToGo = OldToGo
           ELSE ByPriority /\ Last(ResolvedP) = Target

\* C30 witness: to_go ends in the target, no path is found from where the
\* trike stands, updatePath returns False.
C30_Witness ==
    /\ observed.op = "updatePath"
    /\ EndsInTarget
    /\ ~observed.ok
    /\ NewToGo = OldToGo

\* C30 witness of the priorities: a 'front' update put the path before a
\* non-empty to_go.
C30_FrontWitness ==
    /\ observed.op = "updatePath"
    /\ observed.ok
    /\ ~EndsInTarget
    /\ observed.priority = "front"
    /\ OldToGo # <<>>
    /\ NewToGo = ResolvedP \o OldToGo


\* C31: updatePath returns False and leaves to_go unchanged whenever the
\* router reports NoRoute or returns fewer than three points; no exception
\* reaches the caller.
C31_RejectsUnderThreePoints ==
    (observed.op = "updatePath" /\ (Resolved.noroute \/ Len(Resolved.path) < 3))
        => (~observed.ok /\ NewToGo = OldToGo)

\* C31 as the code has it: the length checked is that of the router's path
\* with the target added, so updatePath returns False with to_go unchanged
\* when the router reports NoRoute or returns fewer than two points, and a
\* router path of two points is accepted.
C31_RejectsUnderTwoPoints ==
    observed.op = "updatePath" =>
        /\ (Resolved.noroute \/ Len(Resolved.path) < 2)
              => (~observed.ok /\ NewToGo = OldToGo)
        /\ (~Resolved.noroute /\ Len(Resolved.path) = 2) => observed.ok

\* C31 witness: the router returns one point for a trike with points to go,
\* updatePath returns False and to_go is as before.
C31_Witness ==
    /\ observed.op = "updatePath"
    /\ ~Resolved.noroute
    /\ Len(Resolved.path) = 1
    /\ OldToGo # <<>>
    /\ ~observed.ok
    /\ NewToGo = OldToGo


\* C32: enqueueNearbyPassengers with room = capacity - (on board + enqueued):
\* with no room it changes nothing; otherwise it claims exactly the first
\* min(room, n) of the n passengers of the registry, in registry order, that
\* are within detection radius, WAITING and not claimed by another trike,
\* marks each ENQUEUED by this trike and adds it to the enqueued set; every
\* other passenger is left as it was.
EnqueueOfTheFrame == enqueueNearbyPassengers(World, config.router, idx, cur_time)

Candidates ==
    SelectSeq(map_passengers,
              LAMBDA p :
                /\ haversine(Last(tricycles[idx].path), passengers[p].src)
                      <= DETECTION_RADIUS_METERS * 1000
                /\ passengers[p].status = "WAITING"
                /\ passengers[p].claimed_by \in {None, idx})

Claimed == SubSeq(Candidates, 1, Min(FreeRoom(idx), Len(Candidates)))

C32_EnqueueFirstInRoom ==
    pc = "enqueue" =>
        IF FreeRoom(idx) <= 0
        THEN EnqueueOfTheFrame.W = World /\ EnqueueOfTheFrame.ret = <<>>
        ELSE /\ EnqueueOfTheFrame.ret = Claimed
             /\ EnqueueOfTheFrame.W.T[idx].enqueued_passengers
                   = tricycles[idx].enqueued_passengers \cup SeqToSet(Claimed)
             /\ \A p \in PassengerIds :
                   IF IsIn(p, Claimed)
                   THEN /\ EnqueueOfTheFrame.W.P[p].status = "ENQUEUED"
                        /\ EnqueueOfTheFrame.W.P[p].claimed_by = idx
                   ELSE EnqueueOfTheFrame.W.P[p] = passengers[p]

\* C32 witness: more candidates than room, and the trike claims the first of
\* them only.
C32_Witness ==
    /\ pc = "enqueue"
    /\ FreeRoom(idx) >= 1
    /\ Len(Candidates) > FreeRoom(idx)
    /\ EnqueueOfTheFrame.ret = Claimed
    /\ EnqueueOfTheFrame.W.P[Candidates[Len(Candidates)]].status = "WAITING"

\* C32 witness of the other half: a trike without room meets a candidate
\* and leaves it.
C32_NoRoomWitness ==
    /\ pc = "enqueue"
    /\ FreeRoom(idx) <= 0
    /\ Len(Candidates) >= 1


\* C33: tryOffload removes from the passengers on board exactly those whose
\* destination is within the drop-off radius of the trike's position and
\* marks each COMPLETED with a DROP-OFF event at the current time; the others
\* stay on board in their order, and no passenger is ever dropped off
\* outside the drop-off radius of its destination.
OffloadOfTheFrame == tryOffload(World, config.router, idx, cur_time)

AtDestination(p) ==
    haversine(Last(tricycles[idx].path), passengers[p].dest)
        <= DROPOFF_RADIUS_METERS * 1000

OffloadsExactlyTheArrived ==
    (pc \in {"offload", "move"} /\ tricycles[idx].active) =>
        /\ OffloadOfTheFrame.ret
              = SelectSeq(tricycles[idx].passengers, AtDestination)
        /\ OffloadOfTheFrame.W.T[idx].passengers
              = SelectSeq(tricycles[idx].passengers, LAMBDA p : ~AtDestination(p))
        /\ \A p \in PassengerIds :
              IF IsIn(p, tricycles[idx].passengers) /\ AtDestination(p)
              THEN /\ OffloadOfTheFrame.W.P[p].status = "COMPLETED"
                   /\ Last(OffloadOfTheFrame.W.P[p].events).type = "DROP-OFF"
                   /\ Last(OffloadOfTheFrame.W.P[p].events).time = cur_time
                   /\ \E k \in 1..Len(OffloadOfTheFrame.W.T[idx].events) :
                         /\ OffloadOfTheFrame.W.T[idx].events[k].type = "DROP-OFF"
                         /\ OffloadOfTheFrame.W.T[idx].events[k].data = p
                         /\ OffloadOfTheFrame.W.T[idx].events[k].time = cur_time
              ELSE OffloadOfTheFrame.W.P[p] = passengers[p]

CompletedAtDestination ==
    \A p \in PassengerIds :
        (passengers[p].status # "COMPLETED" /\ passengers'[p].status = "COMPLETED")
            => /\ passengers[p].claimed_by # None
               /\ haversine(Last(tricycles[passengers[p].claimed_by].path),
                            passengers[p].dest) <= DROPOFF_RADIUS_METERS * 1000
               /\ ~IsIn(p, tricycles'[passengers[p].claimed_by].passengers)

C33_OffloadWithinRadius == []OffloadsExactlyTheArrived /\ [][CompletedAtDestination]_vars

\* C33 witness: a trike with two passengers on board stands at the
\* destination of one of them; tryOffload drops that one and keeps the other.
C33_Witness ==
    /\ pc \in {"offload", "move"}
    /\ tricycles[idx].active
    /\ Len(tricycles[idx].passengers) >= 2
    /\ Len(OffloadOfTheFrame.ret) >= 1
    /\ Len(OffloadOfTheFrame.W.T[idx].passengers) >= 1


\* C34: moveTrike on a trike that is not TERMINAL, with points to go, moves
\* the trike toward the head of to_go by at most the distance of one tick and
\* removes the head exactly when the head is reached in this step or is at
\* distance 0 (then nothing else changes and 0 is returned); otherwise to_go
\* is unchanged.  With nothing to go it changes nothing and returns 0.
MoveOfTheFrame == moveTrike(World, idx, cur_time)

PositionBefore == Last(tricycles[idx].path)

PositionAfter == Last(MoveOfTheFrame.W.T[idx].path)

C34_PartWayWitness ==
    /\ pc = "move"
    /\ tricycles[idx].active
    /\ tricycles[idx].to_go # <<>>
    /\ MoveOfTheFrame.ret > 0
    /\ PositionAfter # Head(tricycles[idx].to_go)
    /\ MoveOfTheFrame.W.T[idx].to_go = tricycles[idx].to_go


\* C35: Terminal.addTricycle accepts a trike only when its status is IDLE or
\* RETURNING_TO_TERMINAL; an accepted trike is appended to the terminal's
\* queue, is inactive and has status TERMINAL; for any other status the
\* queue, the trike's active flag and its status are unchanged.
C35_AddTricycle ==
    \A tm \in TerminalIds, v \in TrikeIds :
        LET W2 == addTricycle(World, config.router, tm, v) IN
        IF tricycles[v].status \in {"IDLE", "RETURNING_TO_TERMINAL"}
        THEN /\ W2.Tm[tm].queue = Append(terminals[tm].queue, v)
             /\ ~W2.T[v].active
             /\ W2.T[v].status = "TERMINAL"
        ELSE /\ W2.Tm[tm].queue = terminals[tm].queue
             /\ W2.T[v].active = tricycles[v].active
             /\ W2.T[v].status = tricycles[v].status

\* C35 witness: a trike that moved during the run is back in a terminal's
\* queue, inactive and TERMINAL, while another trike is SERVING.
C35_Witness ==
    \E tm \in TerminalIds, v, u \in TrikeIds :
        /\ IsIn(v, terminals[tm].queue)
        /\ HasEvent(tricycles[v].events, "MOVE")
        /\ ~tricycles[v].active
        /\ tricycles[v].status = "TERMINAL"
        /\ tricycles[u].status = "SERVING"


\* C36: a trike into which a terminal loaded a passenger has left the
\* terminal's queue and is active once the terminal is served; so at the
\* start of every frame no trike in a terminal's queue has a passenger on
\* board, and trikes leave a terminal in the order in which they arrived
\* (a queue changes only by losing its head or gaining a trike at its tail).
QueuedTrikesAreEmpty ==
    FrameStart =>
        \A tm \in TerminalIds :
            \A v \in SeqToSet(terminals[tm].queue) : tricycles[v].passengers = <<>>

LoadedTrikeLeaves ==
    \A v \in TrikeIds :
        (pc = "terminals" /\ TookOnBoard(v)) =>
            /\ terminals[idx].queue # <<>>
            /\ v = Head(terminals[idx].queue)
            /\ terminals'[idx].queue = Tail(terminals[idx].queue)
            /\ tricycles'[v].active
            /\ \A tm \in TerminalIds : ~IsIn(v, terminals'[tm].queue)

QueueIsFifo ==
    \A tm \in TerminalIds :
        \/ terminals'[tm].queue = terminals[tm].queue
        \/ /\ terminals[tm].queue # <<>>
           /\ terminals'[tm].queue = Tail(terminals[tm].queue)
        \/ \E v \in TrikeIds : terminals'[tm].queue = Append(terminals[tm].queue, v)

C36_TerminalService ==
    []QueuedTrikesAreEmpty /\ [][LoadedTrikeLeaves /\ QueueIsFifo]_vars

\* C36 witness: at the start of a frame a trike that was loaded at a
\* terminal is on board with a passenger, active and in no queue, while
\* another trike still waits in the queue.
C36_Witness ==
    /\ FrameStart
    /\ \E v, u \in TrikeIds :
          /\ tricycles[v].passengers # <<>>
          /\ tricycles[v].active
          /\ ~HasEvent(passengers[tricycles[v].passengers[1]].events, "ENQUEUE")
          /\ \A tm \in TerminalIds : ~IsIn(v, terminals[tm].queue)
          /\ \E tm \in TerminalIds : IsIn(u, terminals[tm].queue)


\* C37: when the move of an active trike makes no progress the frame retries
\* tryOffload; then a trike that still has passengers schedules its next
\* passenger; else a trike that does not roam is parked at the terminal it
\* stands at, or gets the path to the nearest terminal appended, or finishes
\* its trip when there is no route; else (roaming) it loads its next cycle
\* point.  One branch is taken, and a trike with a passenger on board is
\* never parked at a terminal.
NoProgress == pc = "move" /\ tricycles[idx].active /\ MoveOfTheFrame.ret = 0

FallbackOffload == tryOffload(MoveOfTheFrame.W, config.router, idx, cur_time)

StillCarries == FallbackOffload.W.T[idx].passengers # <<>>

ParkedAfter == \E tm \in TerminalIds : IsIn(idx, terminals'[tm].queue)

FinishedAfter ==
    /\ ~tricycles'[idx].active
    /\ Last(tricycles'[idx].events).type = "FINISH"

TerminalHere ==
    \E tm \in TerminalIds : same_loc(terminals[tm].location, PositionBefore)

NearestTerminal ==
    CHOOSE tm \in TerminalIds :
        \A other \in TerminalIds :
            get_euclidean_distance(PositionBefore, terminals[tm].location)
                <= get_euclidean_distance(PositionBefore, terminals[other].location)

RouteToNearest ==
    find_path_between_points_in_osrm(config.router, PositionBefore,
                                     terminals[NearestTerminal].location)

ToGoAfterMove == MoveOfTheFrame.W.T[idx].to_go

FallbackBranches ==
    NoProgress =>
        IF StillCarries
        THEN /\ tricycles'[idx].passengers = FallbackOffload.W.T[idx].passengers
             /\ ~ParkedAfter
             /\ tricycles'[idx].active
             /\ tricycles'[idx].to_go
                   = scheduleNextPassenger(FallbackOffload.W, config.router, idx).W.T[idx].to_go
        ELSE IF ~tricycles[idx].isRoaming
        THEN IF TerminalHere
             THEN /\ ParkedAfter
                  /\ ~tricycles'[idx].active
                  /\ tricycles'[idx].status = "TERMINAL"
                  /\ tricycles'[idx].to_go = ToGoAfterMove
             ELSE IF RouteToNearest.noroute
             THEN FinishedAfter /\ ~ParkedAfter
             ELSE /\ tricycles'[idx].active
                  /\ ~ParkedAfter
                  /\ \/ tricycles'[idx].to_go = ToGoAfterMove
                     \/ tricycles'[idx].to_go
                          = ToGoAfterMove
                              \o Tail(RouteToNearest.path
                                        \o <<terminals[NearestTerminal].location>>)
        ELSE /\ tricycles'[idx].active
             /\ ~ParkedAfter
             /\ tricycles'[idx].to_go
                   = loadNextCyclePoint(FallbackOffload.W, config.router, idx).T[idx].to_go

NeverParkedWithPassengers ==
    \A tm \in TerminalIds :
        \A v \in SeqToSet(terminals[tm].queue) : tricycles[v].passengers = <<>>

C37_ZeroProgressFallback == []NeverParkedWithPassengers /\ [][FallbackBranches]_vars


\* C37 witness: a trike with a passenger on board makes no progress while it
\* stands at a terminal; it is about to schedule its passenger, not to park.
C37_Witness ==
    /\ NoProgress
    /\ StillCarries
    /\ TerminalHere
    /\ ~tricycles[idx].isRoaming

\* C37 witnesses of the other branches: parking, heading for the nearest
\* terminal, finishing for want of a route, the next cycle point.
C37_ParkWitness ==
    NoProgress /\ ~StillCarries /\ ~tricycles[idx].isRoaming /\ TerminalHere

C37_HeadHomeWitness ==
    /\ NoProgress /\ ~StillCarries /\ ~tricycles[idx].isRoaming /\ ~TerminalHere
    /\ ~RouteToNearest.noroute

C37_NoRouteWitness ==
    /\ NoProgress /\ ~StillCarries /\ ~tricycles[idx].isRoaming /\ ~TerminalHere
    /\ RouteToNearest.noroute

C37_RoamingWitness ==
    NoProgress /\ ~StillCarries /\ tricycles[idx].isRoaming


\* C38: while a passenger is ENQUEUED by an active trike v, the passenger's
\* source stays in v's to_go until the passenger is loaded or reset: no
\* later operation on v leaves a claimed passenger without a pickup target.
ClaimedHasPickupTarget ==
    \A p \in PassengerIds :
        (/\ passengers[p].status = "ENQUEUED"
         /\ passengers[p].claimed_by # None
         /\ tricycles[passengers[p].claimed_by].active)
            => \/ IsInSeq(passengers[p].src, tricycles[passengers[p].claimed_by].to_go)
               \/ haversine(Last(tricycles[passengers[p].claimed_by].path),
                            passengers[p].src) <= PICKUP_RADIUS_METERS * 1000

C38_PickupTargetKept == FrameStart => ClaimedHasPickupTarget


\* C39: a trike that becomes inactive (finishTrip, or parking at a terminal)
\* has nobody on board and an empty enqueued set, so no passenger is ONBOARD
\* or ENQUEUED with a trike that is no longer active.
GoesInactiveEmpty ==
    \A v \in TrikeIds :
        (tricycles[v].active /\ ~tricycles'[v].active)
            => /\ tricycles'[v].passengers = <<>>
               /\ tricycles'[v].enqueued_passengers = {}

NobodyWithInactiveTrike ==
    \A p \in PassengerIds :
        (passengers[p].status \in {"ONBOARD", "ENQUEUED"} /\ passengers[p].claimed_by # None)
            => tricycles[passengers[p].claimed_by].active

C39_NoPassengerStranded == []NobodyWithInactiveTrike /\ [][GoesInactiveEmpty]_vars


\* C40: at the start of every frame a trike is in the queue of a terminal if
\* and only if its status is TERMINAL, every queued trike is inactive, and
\* no trike is queued more than once over all the terminals.
TimesQueued(v) ==
    Cardinality({<<tm, k>> \in TerminalIds \X (1..NumTrikes) :
                    k <= Len(terminals[tm].queue) /\ terminals[tm].queue[k] = v})

C40_QueuedIffTerminal ==
    FrameStart =>
        \A v \in TrikeIds :
            /\ TimesQueued(v) >= 1 <=> tricycles[v].status = "TERMINAL"
            /\ TimesQueued(v) >= 1 => ~tricycles[v].active
            /\ TimesQueued(v) <= 1
            /\ \A tm \in TerminalIds : Len(terminals[tm].queue) <= NumTrikes

\* C40 witness: at the start of a frame a trike that had left its terminal
\* with a passenger is queued again, TERMINAL and inactive, and another
\* trike is on the road.
C40_Witness ==
    /\ FrameStart
    /\ \E v, u \in TrikeIds :
          /\ TimesQueued(v) = 1
          /\ tricycles[v].status = "TERMINAL"
          /\ HasEvent(tricycles[v].events, "LOAD")
          /\ TimesQueued(u) = 0
          /\ tricycles[u].active

====
